---- MODULE Spec2Model ----
(***************************************************************************)
(* Decision service of the feature-flag SDK (optimizely/decision_service): *)
(* the forced-variation store, the experiment decision resolver            *)
(* (get_variation), the rollout rule walk (get_variation_for_rollout) and  *)
(* the batch orchestrator (get_variations_for_feature_list).               *)
(*                                                                         *)
(* Python values: None is the string "None"; a dict is a function whose    *)
(* DOMAIN is its key set; a list is a sequence; an entity (Experiment,     *)
(* Variation) is a record or its id, looked up through the project config. *)
(***************************************************************************)
EXTENDS Integers, Sequences, FiniteSets, TLC

VARIABLES
    forced_variation_map,   \* DecisionService.forced_variation_map: user id -> (experiment id -> variation id)
    pc,                     \* where the call in progress stands: "idle", "features", "rollout", "done"
    call,                   \* the arguments of the call in progress
    user_profile_tracker,   \* the UserProfileTracker of the call in progress
    decisions,              \* get_variations_for_feature_list: the list `decisions`
    fidx,                   \* get_variations_for_feature_list: 1-based position of `feature` in `features`
    eidx,                   \* get_variations_for_feature_list: 1-based position of `experiment_id` in feature.experimentIds
    feature_reasons,        \* get_variations_for_feature_list: `feature_reasons` of the current feature
    index,                  \* get_variation_for_rollout: `index` (0-based, as in the code)
    decide_reasons,         \* get_variation_for_rollout: `decide_reasons`
    iterations,             \* number of passes through the rollout while-loop in the call in progress
    events,                 \* history: the collaborator calls the call in progress has made, in order
    user_profile_service,   \* DecisionService.user_profile_service: None or the configured service
    ret                     \* the value returned by the call that has just finished

vars == <<forced_variation_map, pc, call, user_profile_tracker, decisions, fidx, eidx,
          feature_reasons, index, decide_reasons, iterations, events,
          user_profile_service, ret>>

None == "None"

\* ------------------------------------------------------------------ bounds

\* Longest feature list handed to get_variations_for_feature_list.
MaxFeatures == 2

\* Passes through the rollout while-loop after which the model stops following a call.
MaxIterations == 4

\* ------------------------------------------------------- python dictionaries

EmptyDict == [k \in {} |-> None]

DictGet(d, k) == IF k \in DOMAIN d THEN d[k] ELSE None

DictSet(d, k, v) == [x \in (DOMAIN d) \cup {k} |-> IF x = k THEN v ELSE d[x]]

DictDel(d, k) == [x \in (DOMAIN d) \ {k} |-> d[x]]

\* A python value that may or may not be a string (variation_key, the bucketing id attribute).
PyNone == [type |-> "NoneType", value |-> ""]

PyStr(s) == [type |-> "str", value |-> s]

PyInt == [type |-> "int", value |-> "5"]

\* --------------------------------------------------------- project configs

Users == {"u1", "u2"}

BucketingIds == Users \cup {"bX"}

\* Variation entities: id -> key.
VariationKeys == [v1 |-> "a", v2 |-> "b", v3 |-> "c", w1 |-> "on1", w2 |-> "on2", w3 |-> "on3"]

RUNNING == "Running"

ROLLOUT == "rollout"

FEATURE_TEST == "feature-test"

\* entities.Experiment. trafficAllocation stands for the bucketer's hash of the
\* bucketing id against the experiment's traffic ranges.
Experiment(id, key, status, forcedVariations, audienceConditions, variations, trafficAllocation) ==
    [id |-> id, key |-> key, status |-> status, forcedVariations |-> forcedVariations,
     audienceConditions |-> audienceConditions, variations |-> variations,
     trafficAllocation |-> trafficAllocation]

\* No Experiment (python None where an Experiment is expected).
NoExperiment == Experiment(None, None, None, EmptyDict, {}, {}, EmptyDict)

\* entities.FeatureFlag
FeatureFlag(key, rolloutId, experimentIds) ==
    [key |-> key, rolloutId |-> rolloutId, experimentIds |-> experimentIds]

Traffic(u1, u2, bX) == [b \in BucketingIds |-> CASE b = "u1" -> u1 [] b = "u2" -> u2 [] OTHER -> bX]

\* A datafile. The knobs: the status of experiment e1, whether e1 still has
\* variation v2, and whether rollout rule r2 is in the experiment id map.
ProjectConfig(status1, hasV2, r2resolves) ==
    LET e1 == Experiment("e1", "exp1", status1, [u \in {"u1"} |-> "b"], {"A"},
                         IF hasV2 THEN {"v1", "v2"} ELSE {"v1"},
                         Traffic("v1", None, IF hasV2 THEN "v2" ELSE None))
        e2 == Experiment("e2", "exp2", RUNNING, EmptyDict, {"A"}, {"v3"}, Traffic("v3", "v3", "v3"))
        r1 == Experiment("r1", "rule1", RUNNING, EmptyDict, {"A"}, {"w1"}, Traffic(None, "w1", None))
        r2 == Experiment("r2", "rule2", RUNNING, EmptyDict, {}, {"w2"}, Traffic("w2", None, None))
        r3 == Experiment("r3", "rule3", RUNNING, EmptyDict, {}, {"w3"}, Traffic("w3", "w3", None))
        all == {e1, e2, r1, r3} \cup (IF r2resolves THEN {r2} ELSE {})
    IN  [experiment_id_map |-> [i \in {e.id : e \in all} |-> CHOOSE e \in all : e.id = i],
         rollout_id_map |-> [r \in {"ro0", "ro1"} |->
                                IF r = "ro1" THEN <<r1, r2, r3>> ELSE <<>>],
         flag_variations_map |-> [f \in {"f1", "f2", "f3", "f4"} |->
                                     CASE f = "f1" -> e1.variations \cup {"v3", "w1", "w2", "w3"}
                                       [] f = "f2" -> {"w1", "w2", "w3"}
                                       [] f = "f3" -> {"v3"}
                                       [] OTHER -> {}]]

\* The feature flags of the datafile: with experiments and a rollout, with a rollout
\* only, without rollout id and with an experiment id the config does not have, with
\* a rollout of no rules, and with a rollout id the config does not have.
Features ==
    {FeatureFlag("f1", "ro1", <<"e1", "e2">>),
     FeatureFlag("f2", "ro1", <<>>),
     FeatureFlag("f3", None, <<"e9", "e2">>),
     FeatureFlag("f4", "ro0", <<>>),
     FeatureFlag("f5", "ro9", <<>>)}

\* ProjectConfig.get_experiment_from_key
get_experiment_from_key(project_config, experiment_key) ==
    LET found == {e \in {project_config.experiment_id_map[i] :
                            i \in DOMAIN project_config.experiment_id_map} :
                     e.key = experiment_key}
    IN  IF found = {} THEN NoExperiment ELSE CHOOSE e \in found : TRUE

\* ProjectConfig.get_experiment_from_id
get_experiment_from_id(project_config, experiment_id) ==
    IF experiment_id \in DOMAIN project_config.experiment_id_map
    THEN project_config.experiment_id_map[experiment_id] ELSE NoExperiment

\* ProjectConfig.get_variation_from_key: the variation (its id) of the experiment with that key.
get_variation_from_key(project_config, experiment_key, variation_key) ==
    LET experiment == get_experiment_from_key(project_config, experiment_key)
    IN  IF experiment.id = None THEN None
        ELSE LET found == {v \in experiment.variations : VariationKeys[v] = variation_key}
             IN  IF found = {} THEN None ELSE CHOOSE v \in found : TRUE

\* ProjectConfig.get_variation_from_id
get_variation_from_id(project_config, experiment_key, variation_id) ==
    LET experiment == get_experiment_from_key(project_config, experiment_key)
    IN  IF experiment.id = None THEN None
        ELSE IF variation_id \in experiment.variations THEN variation_id ELSE None

\* ProjectConfig.get_rollout_from_id: the rollout (its id) or None.
get_rollout_from_id(project_config, rollout_id) ==
    IF rollout_id \in DOMAIN project_config.rollout_id_map THEN rollout_id ELSE None

\* ProjectConfig.get_rollout_experiments
get_rollout_experiments(project_config, rollout) ==
    project_config.rollout_id_map[rollout]

\* ProjectConfig.get_flag_variation(flag_key, 'key', variation_key)
get_flag_variation(project_config, flag_key, variation_key) ==
    LET flag_variations == IF flag_key \in DOMAIN project_config.flag_variations_map
                           THEN project_config.flag_variations_map[flag_key] ELSE {}
        found == {v \in flag_variations : VariationKeys[v] = variation_key}
    IN  IF found = {} THEN None ELSE CHOOSE v \in found : TRUE

\* ------------------------------------------------------ external collaborators

\* helpers.validator.is_non_empty_string
is_non_empty_string(input_id_key) ==
    input_id_key.type = "str" /\ input_id_key.value # ""

\* helpers.experiment.is_experiment_running
is_experiment_running(experiment) == experiment.status = RUNNING

\* helpers.audience.does_user_meet_audience_conditions: no conditions match every
\* user, a list of audience ids matches a user who is in one of them.
does_user_meet_audience_conditions(audience_conditions, user_context) ==
    audience_conditions = {} \/ audience_conditions \cap user_context.attributes.audiences # {}

\* Bucketer.bucket: the variation the bucketing id hashes to, or None.
bucket(project_config, experiment, user_id, bucketing_id) ==
    get_variation_from_id(project_config, experiment.key, experiment.trafficAllocation[bucketing_id])

\* OptimizelyUserContext.get_forced_decision: the variation key forced for
\* (flag key, rule key), or None.
get_forced_decision(user_context, flag_key, rule_key) ==
    DictGet(user_context.forced_decisions, <<flag_key, rule_key>>)

\* UserProfileTracker: absent (python None), or the user's profile (experiment id ->
\* variation id) with its profile_updated flag. `raises` holds the writes that fail:
\* the ids of the experiments for which update_user_profile raises, and "save" when
\* UserProfileService.save raises.
NoTracker == [present |-> FALSE, user_profile |-> EmptyDict, profile_updated |-> FALSE, raises |-> {}]

\* UserProfileTracker.__init__ and load_user_profile: the service's lookup result, or a fresh profile.
load_user_profile(lookup, raises) ==
    [present |-> TRUE, user_profile |-> lookup, profile_updated |-> FALSE, raises |-> raises]

\* UserProfileTracker.update_user_profile
update_user_profile(tracker, experiment, variation) ==
    [tracker EXCEPT !.user_profile = DictSet(@, experiment.id, variation),
                    !.profile_updated = TRUE]

\* A history entry: `op` was called for experiment (or rule, or feature) `exp` and gave
\* `variation`; `feature` is the position of the feature being decided in a batch.
Event(op, exp, variation) == [op |-> op, exp |-> exp, variation |-> variation, feature |-> 0]

\* An exception left the code that made the history entries evs: control goes to
\* the caller's handler, or out of the service if the callers have none.
Escaped(evs) == \E k \in 1..Len(evs) : evs[k].op = "raise"

\* UserProfileTracker.save_user_profile: the calls it makes. It writes the profile to
\* the service only when the profile was updated, and a failure of the service's
\* save is caught and logged inside it: no exception leaves it.
save_user_profile(tracker, user_id) ==
    <<Event("save_user_profile", user_id, None)>>
    \o (IF tracker.profile_updated
        THEN <<Event("UserProfileService.save", user_id, None)>> ELSE <<>>)

\* The history entries evs, made while the feature at position i was decided.
Stamp(evs, i) == [k \in 1..Len(evs) |-> [evs[k] EXCEPT !.feature = i]]

\* A decide reason: message template and what it is about.
Reason(message, about) == <<message, about>>

\* --------------------------------------------------- forced-variation store

\* set_forced_variation that clears by dropping the user's whole inner map.
set_forced_variation_drops_user(fvm, project_config, experiment_key, user_id, variation_key) ==
    LET experiment == get_experiment_from_key(project_config, experiment_key)
        forced_variation ==
            IF is_non_empty_string(variation_key)
            THEN get_variation_from_key(project_config, experiment_key, variation_key.value)
            ELSE None
    IN  IF experiment.id = None
        THEN [result |-> FALSE, map |-> fvm]
        ELSE IF variation_key.type = "NoneType"
        THEN [result |-> TRUE,
              map |-> IF user_id \in DOMAIN fvm /\ experiment.id \in DOMAIN fvm[user_id]
                      THEN DictDel(fvm, user_id) ELSE fvm]
        ELSE IF forced_variation = None
        THEN [result |-> FALSE, map |-> fvm]
        ELSE [result |-> TRUE,
              map |-> DictSet(fvm, user_id,
                              DictSet(IF user_id \in DOMAIN fvm THEN fvm[user_id] ELSE EmptyDict,
                                      experiment.id, forced_variation))]

\* set_forced_variation that keeps the variation a user already has for the
\* experiment: the first write wins.
set_forced_variation_keeps_first(fvm, project_config, experiment_key, user_id, variation_key) ==
    LET experiment == get_experiment_from_key(project_config, experiment_key)
        experiment_id == experiment.id
    IN  IF experiment.id = None
        THEN [result |-> FALSE, map |-> fvm]
        ELSE IF variation_key.type = "NoneType"
        THEN [result |-> TRUE,
              map |-> IF user_id \in DOMAIN fvm /\ experiment_id \in DOMAIN fvm[user_id]
                      THEN DictSet(fvm, user_id, DictDel(fvm[user_id], experiment_id))
                      ELSE fvm]
        ELSE IF ~is_non_empty_string(variation_key)
        THEN [result |-> FALSE, map |-> fvm]
        ELSE LET forced_variation ==
                     get_variation_from_key(project_config, experiment_key, variation_key.value)
                 variation_id == forced_variation
             IN  IF forced_variation = None
                 THEN [result |-> FALSE, map |-> fvm]
                 ELSE [result |-> TRUE,
                       map |-> IF user_id \notin DOMAIN fvm
                               THEN DictSet(fvm, user_id, DictSet(EmptyDict, experiment_id, variation_id))
                               ELSE IF experiment_id \in DOMAIN fvm[user_id] THEN fvm
                               ELSE DictSet(fvm, user_id, DictSet(fvm[user_id], experiment_id, variation_id))]

\* set_forced_variation that treats a variation key it cannot accept like None: the
\* user's entry for the experiment is dropped before False is returned.
set_forced_variation_drops_entry(fvm, project_config, experiment_key, user_id, variation_key) ==
    LET experiment == get_experiment_from_key(project_config, experiment_key)
        experiment_id == experiment.id
        forced_variation ==
            IF is_non_empty_string(variation_key)
            THEN get_variation_from_key(project_config, experiment_key, variation_key.value)
            ELSE None
        dropped == IF user_id \in DOMAIN fvm /\ experiment_id \in DOMAIN fvm[user_id]
                   THEN DictSet(fvm, user_id, DictDel(fvm[user_id], experiment_id))
                   ELSE fvm
    IN  IF experiment.id = None
        THEN [result |-> FALSE, map |-> fvm]
        ELSE IF variation_key.type = "NoneType"
        THEN [result |-> TRUE, map |-> dropped]
        ELSE IF forced_variation = None
        THEN [result |-> FALSE, map |-> dropped]
        ELSE [result |-> TRUE,
              map |-> DictSet(fvm, user_id,
                              DictSet(IF user_id \in DOMAIN fvm THEN fvm[user_id] ELSE EmptyDict,
                                      experiment_id, forced_variation))]

\* DecisionService.set_forced_variation on the map fvm: the returned bool and the map afterwards.
set_forced_variation(fvm, project_config, experiment_key, user_id, variation_key) ==
    LET experiment == get_experiment_from_key(project_config, experiment_key)
        experiment_id == experiment.id
    IN  IF experiment.id = None
        THEN [result |-> FALSE, map |-> fvm]
        ELSE IF variation_key.type = "NoneType"
        THEN [result |-> TRUE,
              map |-> IF user_id \in DOMAIN fvm /\ experiment_id \in DOMAIN fvm[user_id]
                      THEN DictSet(fvm, user_id, DictDel(fvm[user_id], experiment_id))
                      ELSE fvm]
        ELSE IF ~is_non_empty_string(variation_key)
        THEN [result |-> FALSE, map |-> fvm]
        ELSE LET forced_variation ==
                     get_variation_from_key(project_config, experiment_key, variation_key.value)
                 variation_id == forced_variation
             IN  IF forced_variation = None
                 THEN [result |-> FALSE, map |-> fvm]
                 ELSE [result |-> TRUE,
                       map |-> IF user_id \notin DOMAIN fvm
                               THEN DictSet(fvm, user_id, DictSet(EmptyDict, experiment_id, variation_id))
                               ELSE DictSet(fvm, user_id, DictSet(fvm[user_id], experiment_id, variation_id))]

\* get_forced_variation that hands back the stored variation id without resolving it
\* in the config.
get_forced_variation_unresolved(fvm, project_config, experiment_key, user_id) ==
    LET experiment == get_experiment_from_key(project_config, experiment_key)
        nothing == [variation |-> None, reasons |-> <<>>]
    IN  IF user_id \notin DOMAIN fvm \/ experiment.id = None THEN nothing
        ELSE LET variation_id == DictGet(fvm[user_id], experiment.id)
             IN  IF variation_id = None THEN nothing
                 ELSE [variation |-> variation_id,
                       reasons |-> <<Reason("forced_variation_map", experiment_key)>>]

\* get_forced_variation with the inner map read by experiment key where the store is
\* keyed by experiment id.
get_forced_variation_by_key(fvm, project_config, experiment_key, user_id) ==
    LET experiment == get_experiment_from_key(project_config, experiment_key)
        nothing == [variation |-> None, reasons |-> <<>>]
    IN  IF user_id \notin DOMAIN fvm \/ experiment.id = None THEN nothing
        ELSE LET variation_id == DictGet(fvm[user_id], experiment_key)
                 variation == get_variation_from_id(project_config, experiment_key, variation_id)
             IN  IF variation_id = None \/ variation = None THEN nothing
                 ELSE [variation |-> variation,
                       reasons |-> <<Reason("forced_variation_map", experiment_key)>>]

\* DecisionService.get_forced_variation: the variation and the decide reasons.
get_forced_variation(fvm, project_config, experiment_key, user_id) ==
    LET experiment == get_experiment_from_key(project_config, experiment_key)
        nothing == [variation |-> None, reasons |-> <<>>]
    IN  IF user_id \notin DOMAIN fvm THEN nothing
        ELSE IF experiment.id = None THEN nothing
        ELSE LET experiment_to_variation_map == fvm[user_id]
                 variation_id == DictGet(experiment_to_variation_map, experiment.id)
                 variation == get_variation_from_id(project_config, experiment_key, variation_id)
             IN  IF DOMAIN experiment_to_variation_map = {} THEN nothing
                 ELSE IF variation_id = None THEN nothing
                 ELSE IF variation = None THEN nothing
                 ELSE [variation |-> variation,
                       reasons |-> <<Reason("forced_variation_map", experiment_key)>>]

\* DecisionService.get_whitelisted_variation
get_whitelisted_variation(project_config, experiment, user_id) ==
    LET forced_variations == experiment.forcedVariations
    IN  IF user_id \in DOMAIN forced_variations
        THEN LET forced_variation_key == forced_variations[user_id]
                 forced_variation ==
                     get_variation_from_key(project_config, experiment.key, forced_variation_key)
             IN  [variation |-> forced_variation,
                  reasons |-> IF forced_variation # None
                              THEN <<Reason("whitelisted", experiment.key)>> ELSE <<>>]
        ELSE [variation |-> None, reasons |-> <<>>]

\* get_stored_variation that hands back the stored variation id without resolving it
\* in the config.
get_stored_variation_unresolved(project_config, experiment, user_profile) ==
    DictGet(user_profile, experiment.id)

\* DecisionService.get_stored_variation
get_stored_variation(project_config, experiment, user_profile) ==
    LET variation_id == DictGet(user_profile, experiment.id)
    IN  IF variation_id # None
        THEN get_variation_from_id(project_config, experiment.key, variation_id)
        ELSE None

\* DecisionService._get_bucketing_id: the bucketing id and the decide reasons.
get_bucketing_id(user_id, attributes) ==
    LET bucketing_id == attributes.bucketing_id
    IN  IF bucketing_id.type # "NoneType"
        THEN IF bucketing_id.type = "str"
             THEN [bucketing_id |-> bucketing_id.value, reasons |-> <<>>]
             ELSE [bucketing_id |-> user_id, reasons |-> <<Reason("bucketing_id_not_string", user_id)>>]
        ELSE [bucketing_id |-> user_id, reasons |-> <<>>]

\* ------------------------------------------------ experiment decision resolver

IGNORE_USER_PROFILE_SERVICE == "IGNORE_USER_PROFILE_SERVICE"

\* store_decision that also writes the profile through to the service at once.
store_decision_and_save(tracker, use_profile, experiment, variation) ==
    IF use_profile
    THEN [tracker |-> update_user_profile(tracker, experiment, variation),
          events |-> <<Event("update_user_profile", experiment.id, variation),
                       Event("save_user_profile", experiment.id, None),
                       Event("UserProfileService.save", experiment.id, None)>>]
    ELSE [tracker |-> tracker, events |-> <<>>]

\* store_decision without the try/except around the update: an exception of
\* update_user_profile leaves get_variation (history entry "raise").
store_decision_unprotected(tracker, use_profile, experiment, variation) ==
    IF use_profile
    THEN [tracker |-> IF experiment.id \in tracker.raises THEN tracker
                      ELSE update_user_profile(tracker, experiment, variation),
          events |-> <<Event("update_user_profile", experiment.id, variation)>>
                     \o (IF experiment.id \in tracker.raises
                         THEN <<Event("raise", experiment.id, None)>> ELSE <<>>)]
    ELSE [tracker |-> tracker, events |-> <<>>]

\* DecisionService.get_variation, lines 340-344: the new decision goes into the
\* tracker's profile; a failure of the update is logged and swallowed (the history
\* gets no "raise" entry, which stands for an exception that leaves the method).
store_decision(tracker, use_profile, experiment, variation) ==
    IF use_profile
    THEN [tracker |-> IF experiment.id \in tracker.raises THEN tracker
                      ELSE update_user_profile(tracker, experiment, variation),
          events |-> <<Event("update_user_profile", experiment.id, variation)>>]
    ELSE [tracker |-> tracker, events |-> <<>>]

\* The layers of get_variation below the whitelist: stored profile, audience, bucketing.
\* (Shared by the two reorderings of get_variation below.)
below_whitelist(project_config, experiment, user_context, tracker, reasons, options, evs) ==
    LET user_id == user_context.user_id
        use_profile == tracker.present /\ IGNORE_USER_PROFILE_SERVICE \notin options
        stored == IF use_profile
                  THEN get_stored_variation(project_config, experiment, tracker.user_profile)
                  ELSE None
        meets == does_user_meet_audience_conditions(experiment.audienceConditions, user_context)
        bid == get_bucketing_id(user_id, user_context.attributes)
        variation == bucket(project_config, experiment, user_id, bid.bucketing_id)
        ev_stored == evs \o (IF use_profile
                             THEN <<Event("get_stored_variation", experiment.id, stored)>>
                             ELSE <<>>)
        ev_audience == ev_stored \o <<Event("does_user_meet_audience_conditions", experiment.id, None)>>
        ev_bucket == ev_audience \o <<Event("bucket", experiment.id, variation)>>
    IN  IF use_profile /\ stored # None
        THEN [variation |-> stored, reasons |-> reasons, events |-> ev_stored, tracker |-> tracker]
        ELSE IF ~meets
        THEN [variation |-> None, reasons |-> reasons, events |-> ev_audience, tracker |-> tracker]
        ELSE IF variation # None
        THEN [variation |-> variation, reasons |-> reasons,
              events |-> ev_bucket \o store_decision(tracker, use_profile, experiment, variation).events,
              tracker |-> store_decision(tracker, use_profile, experiment, variation).tracker]
        ELSE [variation |-> None, reasons |-> reasons, events |-> ev_bucket, tracker |-> tracker]

\* get_variation with the whitelist consulted before the forced-variation store.
get_variation_whitelist_first(fvm, project_config, experiment, user_context, tracker, reasons, options) ==
    LET user_id == user_context.user_id
        forced == get_forced_variation(fvm, project_config, experiment.key, user_id)
        whitelisted == get_whitelisted_variation(project_config, experiment, user_id)
        ev_white == <<Event("get_whitelisted_variation", experiment.id, whitelisted.variation)>>
        ev_forced == ev_white \o <<Event("get_forced_variation", experiment.id, forced.variation)>>
    IN  IF ~is_experiment_running(experiment)
        THEN [variation |-> None, reasons |-> reasons, events |-> <<>>, tracker |-> tracker]
        ELSE IF whitelisted.variation # None
        THEN [variation |-> whitelisted.variation, reasons |-> reasons \o whitelisted.reasons,
              events |-> ev_white, tracker |-> tracker]
        ELSE IF forced.variation # None
        THEN [variation |-> forced.variation, reasons |-> reasons \o forced.reasons,
              events |-> ev_forced, tracker |-> tracker]
        ELSE below_whitelist(project_config, experiment, user_context, tracker, reasons, options,
                             ev_forced)

\* get_variation with the running check made only after the store and the whitelist.
get_variation_status_late(fvm, project_config, experiment, user_context, tracker, reasons, options) ==
    LET user_id == user_context.user_id
        forced == get_forced_variation(fvm, project_config, experiment.key, user_id)
        whitelisted == get_whitelisted_variation(project_config, experiment, user_id)
        ev_forced == <<Event("get_forced_variation", experiment.id, forced.variation)>>
        ev_white == ev_forced \o <<Event("get_whitelisted_variation", experiment.id, whitelisted.variation)>>
    IN  IF forced.variation # None
        THEN [variation |-> forced.variation, reasons |-> reasons \o forced.reasons,
              events |-> ev_forced, tracker |-> tracker]
        ELSE IF whitelisted.variation # None
        THEN [variation |-> whitelisted.variation, reasons |-> reasons \o whitelisted.reasons,
              events |-> ev_white, tracker |-> tracker]
        ELSE IF ~is_experiment_running(experiment)
        THEN [variation |-> None, reasons |-> reasons, events |-> ev_white, tracker |-> tracker]
        ELSE below_whitelist(project_config, experiment, user_context, tracker, reasons, options,
                             ev_white)

\* get_variation that also stores a whitelisted variation in the profile tracker.
get_variation_stores_whitelisted(fvm, project_config, experiment, user_context, tracker, reasons, options) ==
    LET user_id == user_context.user_id
        use_profile == tracker.present /\ IGNORE_USER_PROFILE_SERVICE \notin options
        forced == get_forced_variation(fvm, project_config, experiment.key, user_id)
        whitelisted == get_whitelisted_variation(project_config, experiment, user_id)
        ev_forced == <<Event("get_forced_variation", experiment.id, forced.variation)>>
        ev_white == ev_forced \o <<Event("get_whitelisted_variation", experiment.id, whitelisted.variation)>>
        stored == store_decision(tracker, use_profile, experiment, whitelisted.variation)
    IN  IF ~is_experiment_running(experiment)
        THEN [variation |-> None, reasons |-> reasons, events |-> <<>>, tracker |-> tracker]
        ELSE IF forced.variation # None
        THEN [variation |-> forced.variation, reasons |-> reasons \o forced.reasons,
              events |-> ev_forced, tracker |-> tracker]
        ELSE IF whitelisted.variation # None
        THEN [variation |-> whitelisted.variation, reasons |-> reasons \o whitelisted.reasons,
              events |-> ev_white \o stored.events, tracker |-> stored.tracker]
        ELSE below_whitelist(project_config, experiment, user_context, tracker, reasons, options,
                             ev_white)

\* DecisionService.get_variation: the variation, the decide reasons, the collaborator
\* calls made (history) and the profile tracker afterwards.
get_variation(fvm, project_config, experiment, user_context, tracker, reasons, options) ==
    LET user_id == user_context.user_id
        ignore_user_profile == IGNORE_USER_PROFILE_SERVICE \in options
        use_profile == tracker.present /\ ~ignore_user_profile
        forced == get_forced_variation(fvm, project_config, experiment.key, user_id)
        whitelisted == get_whitelisted_variation(project_config, experiment, user_id)
        stored == IF use_profile
                  THEN get_stored_variation(project_config, experiment, tracker.user_profile)
                  ELSE None
        meets == does_user_meet_audience_conditions(experiment.audienceConditions, user_context)
        bid == get_bucketing_id(user_id, user_context.attributes)
        variation == bucket(project_config, experiment, user_id, bid.bucketing_id)
        ev_forced == <<Event("get_forced_variation", experiment.id, forced.variation)>>
        ev_white == ev_forced \o <<Event("get_whitelisted_variation", experiment.id, whitelisted.variation)>>
        ev_stored == ev_white \o (IF use_profile
                                  THEN <<Event("get_stored_variation", experiment.id, stored)>>
                                  ELSE <<>>)
        ev_audience == ev_stored \o <<Event("does_user_meet_audience_conditions", experiment.id, None)>>
        ev_bucket == ev_audience \o <<Event("bucket", experiment.id, variation)>>
        r_forced == reasons \o forced.reasons
        r_white == r_forced \o whitelisted.reasons
        r_audience == r_white \o <<Reason("audience_evaluated", experiment.key)>>
        r_bucket == r_audience \o bid.reasons \o <<Reason("bucketed", experiment.key)>>
    IN  IF ~is_experiment_running(experiment)
        THEN [variation |-> None, reasons |-> reasons \o <<Reason("not_running", experiment.key)>>,
              events |-> <<>>, tracker |-> tracker]
        ELSE IF forced.variation # None
        THEN [variation |-> forced.variation, reasons |-> r_forced,
              events |-> ev_forced, tracker |-> tracker]
        ELSE IF whitelisted.variation # None
        THEN [variation |-> whitelisted.variation, reasons |-> r_white,
              events |-> ev_white, tracker |-> tracker]
        ELSE IF use_profile /\ stored # None
        THEN [variation |-> stored,
              reasons |-> r_white \o <<Reason("returning_stored", experiment.key)>>,
              events |-> ev_stored, tracker |-> tracker]
        ELSE IF ~meets
        THEN [variation |-> None,
              reasons |-> r_audience \o <<Reason("not_in_audience", experiment.key)>>,
              events |-> ev_audience, tracker |-> tracker]
        ELSE IF variation # None
        THEN [variation |-> variation,
              reasons |-> r_bucket \o <<Reason("in_variation", experiment.key)>>,
              events |-> ev_bucket \o store_decision(tracker, use_profile, experiment, variation).events,
              tracker |-> store_decision(tracker, use_profile, experiment, variation).tracker]
        ELSE [variation |-> None,
              reasons |-> r_bucket \o <<Reason("in_no_variation", experiment.key)>>,
              events |-> ev_bucket, tracker |-> tracker]

\* ----------------------------------------------------- forced-decision resolver

\* validated_forced_decision that takes the forced variation key as it is when the
\* flag has no variation of that key.
validated_forced_decision_unvalidated(project_config, flag_key, rule_key, user_context) ==
    LET forced_decision == get_forced_decision(user_context, flag_key, rule_key)
        variation == get_flag_variation(project_config, flag_key, forced_decision)
    IN  IF forced_decision # None
        THEN [variation |-> IF variation # None THEN variation ELSE forced_decision,
              reasons |-> <<Reason("forced_decision", rule_key)>>,
              forced_decisions |-> user_context.forced_decisions]
        ELSE [variation |-> None, reasons |-> <<>>,
              forced_decisions |-> user_context.forced_decisions]

\* validated_forced_decision that removes from the user context a forced decision it
\* has found invalid.
validated_forced_decision_drops_invalid(project_config, flag_key, rule_key, user_context) ==
    LET forced_decision == get_forced_decision(user_context, flag_key, rule_key)
        variation == get_flag_variation(project_config, flag_key, forced_decision)
    IN  IF forced_decision # None
        THEN IF variation # None
             THEN [variation |-> variation,
                   reasons |-> <<Reason("forced_decision", rule_key)>>,
                   forced_decisions |-> user_context.forced_decisions]
             ELSE [variation |-> None,
                   reasons |-> <<Reason("forced_decision_invalid", rule_key)>>,
                   forced_decisions |-> DictDel(user_context.forced_decisions, <<flag_key, rule_key>>)]
        ELSE [variation |-> None, reasons |-> <<>>,
              forced_decisions |-> user_context.forced_decisions]

\* DecisionService.validated_forced_decision
validated_forced_decision(project_config, flag_key, rule_key, user_context) ==
    LET forced_decision == get_forced_decision(user_context, flag_key, rule_key)
        variation == get_flag_variation(project_config, flag_key, forced_decision)
    IN  IF forced_decision # None
        THEN IF variation # None
             THEN [variation |-> variation,
                   reasons |-> <<Reason("forced_decision", rule_key)>>,
                   forced_decisions |-> user_context.forced_decisions]
             ELSE [variation |-> None,
                   reasons |-> <<Reason("forced_decision_invalid", rule_key)>>,
                   forced_decisions |-> user_context.forced_decisions]
        ELSE [variation |-> None, reasons |-> <<>>,
              forced_decisions |-> user_context.forced_decisions]

\* -------------------------------------------------------- decisions

\* Decision: the experiment (its id), the variation (its id) and the source.
Decision(experiment, variation, source) ==
    [experiment |-> experiment, variation |-> variation, source |-> source]

\* NoDecision that carries the source of a feature test.
NoDecision_feature_test == Decision(None, None, FEATURE_TEST)

NoDecision == Decision(None, None, ROLLOUT)

\* ------------------------------------------------------ rollout decision resolver

\* rollout_entry that walks the rules of rollout "ro1" for a feature whose own
\* rollout gives none.
rollout_entry_default_rollout(project_config, feature) ==
    LET rollout == get_rollout_from_id(project_config, feature.rolloutId)
    IN  IF feature.rolloutId # None /\ rollout # None
           /\ Len(get_rollout_experiments(project_config, rollout)) > 0
        THEN [returns |-> FALSE, reasons |-> <<>>,
              rollout_rules |-> get_rollout_experiments(project_config, rollout)]
        ELSE [returns |-> FALSE, reasons |-> <<>>,
              rollout_rules |-> get_rollout_experiments(project_config, "ro1")]

\* DecisionService.get_variation_for_rollout, before the loop: whether the call
\* returns at once, the reasons so far and the rollout's rules.
rollout_entry(project_config, feature) ==
    LET rollout == get_rollout_from_id(project_config, feature.rolloutId)
        rollout_rules == get_rollout_experiments(project_config, rollout)
    IN  IF feature.rolloutId = None
        THEN [returns |-> TRUE, reasons |-> <<>>, rollout_rules |-> <<>>]
        ELSE IF rollout = None
        THEN [returns |-> TRUE, reasons |-> <<Reason("no_rollout", feature.key)>>,
              rollout_rules |-> <<>>]
        ELSE IF Len(rollout_rules) = 0
        THEN [returns |-> TRUE, reasons |-> <<Reason("no_experiments", rollout)>>,
              rollout_rules |-> <<>>]
        ELSE [returns |-> FALSE, reasons |-> <<>>, rollout_rules |-> rollout_rules]

\* next_index that passes over a rule after a failed audience check.
next_index_steps_two(idx, rollout_rules, skip_to_everyone_else) ==
    IF skip_to_everyone_else THEN Len(rollout_rules) - 1 ELSE idx + 2

\* next_index without the jump to the everyone-else rule.
next_index_no_skip(idx, rollout_rules, skip_to_everyone_else) == idx + 1

\* The index the loop goes on with once a resolvable rule gave no variation.
next_index(idx, rollout_rules, skip_to_everyone_else) ==
    IF skip_to_everyone_else THEN Len(rollout_rules) - 1 ELSE idx + 1

\* The index the loop goes on with after `continue` on an unresolvable rule id.
continue_index(idx) == idx

\* rollout_iteration in which a rule the user is bucketed into wins over a forced
\* decision for that rule.
rollout_iteration_bucket_first(project_config, feature, user_context, rollout_rules, idx, reasons) ==
    LET user_id == user_context.user_id
        rule == rollout_rules[idx + 1]
        forced == validated_forced_decision(project_config, feature.key, rule.key, user_context)
        bid == get_bucketing_id(user_id, user_context.attributes)
        everyone_else == (idx = Len(rollout_rules) - 1)
        rollout_rule == get_experiment_from_id(project_config, rule.id)
        meets == does_user_meet_audience_conditions(rollout_rule.audienceConditions, user_context)
        bucketed_variation == bucket(project_config, rollout_rule, user_id, bid.bucketing_id)
        skip_to_everyone_else == meets /\ bucketed_variation = None /\ ~everyone_else
        ev_forced == <<Event("validated_forced_decision", rule.id, forced.variation)>>
        ev_audience == ev_forced \o <<Event("does_user_meet_audience_conditions", rule.id, None)>>
        ev_bucket == ev_audience \o <<Event("bucket", rule.id, bucketed_variation)>>
        r_bid == reasons \o forced.reasons \o bid.reasons
    IN  IF rollout_rule.id # None /\ meets /\ bucketed_variation # None
        THEN [returns |-> TRUE, decision |-> Decision(rule.id, bucketed_variation, ROLLOUT),
              index |-> idx, reasons |-> r_bid, events |-> ev_bucket]
        ELSE IF forced.variation # None
        THEN [returns |-> TRUE, decision |-> Decision(rule.id, forced.variation, ROLLOUT),
              index |-> idx, reasons |-> r_bid, events |-> ev_forced]
        ELSE IF rollout_rule.id = None
        THEN [returns |-> FALSE, decision |-> NoDecision,
              index |-> continue_index(idx), reasons |-> r_bid, events |-> ev_forced]
        ELSE [returns |-> FALSE, decision |-> NoDecision,
              index |-> next_index(idx, rollout_rules, skip_to_everyone_else),
              reasons |-> r_bid, events |-> IF meets THEN ev_bucket ELSE ev_audience]

\* DecisionService.get_variation_for_rollout: one pass through the while-loop at
\* `idx`: whether it returns, the Decision if so, and otherwise the index to go on with.
rollout_iteration(project_config, feature, user_context, rollout_rules, idx, reasons) ==
    LET user_id == user_context.user_id
        rule == rollout_rules[idx + 1]
        forced == validated_forced_decision(project_config, feature.key, rule.key, user_context)
        bid == get_bucketing_id(user_id, user_context.attributes)
        everyone_else == (idx = Len(rollout_rules) - 1)
        rollout_rule == get_experiment_from_id(project_config, rule.id)
        meets == does_user_meet_audience_conditions(rollout_rule.audienceConditions, user_context)
        bucketed_variation == bucket(project_config, rollout_rule, user_id, bid.bucketing_id)
        skip_to_everyone_else == meets /\ bucketed_variation = None /\ ~everyone_else
        ev_forced == <<Event("validated_forced_decision", rule.id, forced.variation)>>
        ev_audience == ev_forced \o <<Event("does_user_meet_audience_conditions", rule.id, None)>>
        ev_bucket == ev_audience \o <<Event("bucket", rule.id, bucketed_variation)>>
        r_forced == reasons \o forced.reasons
        r_bid == r_forced \o bid.reasons
        r_audience == r_bid \o <<Reason("audience_evaluated", rule.key)>>
        r_meets == r_audience \o <<Reason("meets_audience", rule.key)>>
    IN  IF forced.variation # None
        THEN [returns |-> TRUE, decision |-> Decision(rule.id, forced.variation, ROLLOUT),
              index |-> idx, reasons |-> r_forced, events |-> ev_forced]
        ELSE IF rollout_rule.id = None
        THEN [returns |-> FALSE, decision |-> NoDecision,
              index |-> continue_index(idx), reasons |-> r_bid, events |-> ev_forced]
        ELSE IF meets /\ bucketed_variation # None
        THEN [returns |-> TRUE, decision |-> Decision(rule.id, bucketed_variation, ROLLOUT),
              index |-> idx, reasons |-> r_meets \o <<Reason("bucketed_into_rule", rule.key)>>,
              events |-> ev_bucket]
        ELSE IF meets
        THEN [returns |-> FALSE, decision |-> NoDecision,
              index |-> next_index(idx, rollout_rules, skip_to_everyone_else),
              reasons |-> r_meets \o (IF ~everyone_else
                                      THEN <<Reason("not_bucketed_into_rule", rule.key)>>
                                      ELSE <<>>),
              events |-> ev_bucket]
        ELSE [returns |-> FALSE, decision |-> NoDecision,
              index |-> next_index(idx, rollout_rules, skip_to_everyone_else),
              reasons |-> r_audience \o <<Reason("not_meets_audience", rule.key)>>,
              events |-> ev_audience]

\* --------------------------------------------------- feature decision orchestrator

\* feature_experiment that takes any resolvable experiment as a decision found,
\* whether or not it gave a variation.
feature_experiment_any_found(fvm, project_config, feature, user_context, options, experiment_id, st) ==
    LET experiment == get_experiment_from_id(project_config, experiment_id)
        forced == validated_forced_decision(project_config, feature.key, experiment.key, user_context)
        r_forced == st.feature_reasons \o forced.reasons
        gv == get_variation(fvm, project_config, experiment, user_context, st.tracker, r_forced, options)
        ev_forced == st.events \o <<Event("validated_forced_decision", experiment.id, forced.variation)>>
    IN  IF experiment.id = None
        THEN [experiment_decision_found |-> FALSE, decision |-> NoDecision,
              feature_reasons |-> st.feature_reasons, tracker |-> st.tracker,
              events |-> st.events]
        ELSE IF forced.variation # None
        THEN [experiment_decision_found |-> TRUE,
              decision |-> Decision(experiment.id, forced.variation, FEATURE_TEST),
              feature_reasons |-> r_forced, tracker |-> st.tracker, events |-> ev_forced]
        ELSE [experiment_decision_found |-> TRUE,
              decision |-> Decision(experiment.id, gv.variation, FEATURE_TEST),
              feature_reasons |-> r_forced \o gv.reasons, tracker |-> gv.tracker,
              events |-> ev_forced \o <<Event("get_variation", experiment.id, gv.variation)>>
                         \o gv.events]

\* feature_experiment that asks get_variation whatever the forced-decision check
\* gave, and uses the forced decision only when get_variation gave nothing.
feature_experiment_forced_last(fvm, project_config, feature, user_context, options, experiment_id, st) ==
    LET experiment == get_experiment_from_id(project_config, experiment_id)
        forced == validated_forced_decision(project_config, feature.key, experiment.key, user_context)
        r_forced == st.feature_reasons \o forced.reasons
        gv == get_variation(fvm, project_config, experiment, user_context, st.tracker, r_forced, options)
        decision_variation == IF gv.variation # None THEN gv.variation ELSE forced.variation
        ev_forced == st.events \o <<Event("validated_forced_decision", experiment.id, forced.variation)>>
    IN  IF experiment.id = None
        THEN [experiment_decision_found |-> FALSE, decision |-> NoDecision,
              feature_reasons |-> st.feature_reasons, tracker |-> st.tracker,
              events |-> st.events]
        ELSE [experiment_decision_found |-> decision_variation # None,
              decision |-> IF decision_variation # None
                           THEN Decision(experiment.id, decision_variation, FEATURE_TEST)
                           ELSE NoDecision,
              feature_reasons |-> r_forced \o gv.reasons, tracker |-> gv.tracker,
              events |-> ev_forced \o <<Event("get_variation", experiment.id, gv.variation)>>
                         \o gv.events]

\* DecisionService.get_variations_for_feature_list, lines 582-608: the loop body for
\* experiment_id. st holds feature_reasons, the tracker and the history before it.
feature_experiment(fvm, project_config, feature, user_context, options, experiment_id, st) ==
    LET experiment == get_experiment_from_id(project_config, experiment_id)
        forced == validated_forced_decision(project_config, feature.key, experiment.key, user_context)
        r_forced == st.feature_reasons \o forced.reasons
        gv == get_variation(fvm, project_config, experiment, user_context, st.tracker, r_forced, options)
        decision_variation == IF forced.variation # None THEN forced.variation ELSE gv.variation
        ev_forced == st.events \o <<Event("validated_forced_decision", experiment.id, forced.variation)>>
    IN  IF experiment.id = None
        THEN [experiment_decision_found |-> FALSE, decision |-> NoDecision,
              feature_reasons |-> st.feature_reasons, tracker |-> st.tracker,
              events |-> st.events]
        ELSE IF forced.variation # None
        THEN [experiment_decision_found |-> TRUE,
              decision |-> Decision(experiment.id, forced.variation, FEATURE_TEST),
              feature_reasons |-> r_forced, tracker |-> st.tracker, events |-> ev_forced]
        ELSE [experiment_decision_found |-> gv.variation # None,
              decision |-> IF gv.variation # None
                           THEN Decision(experiment.id, gv.variation, FEATURE_TEST)
                           ELSE NoDecision,
              feature_reasons |-> r_forced \o gv.reasons, tracker |-> gv.tracker,
              events |-> ev_forced \o <<Event("get_variation", experiment.id, gv.variation)>>
                         \o gv.events]

\* ------------------------------------------------------------------ inputs

\* Datafiles the host may hand to a call (the knobs of ProjectConfig).
Datafiles == [status1 : {RUNNING, "Paused"}, hasV2 : BOOLEAN, r2resolves : BOOLEAN]

ConfigTable == [d \in Datafiles |-> ProjectConfig(d.status1, d.hasV2, d.r2resolves)]

\* The ProjectConfig parsed from a datafile.
ConfigOf(datafile) == ConfigTable[datafile]

\* The datafiles each operation is followed on: those that differ in what it reads.
StoreDatafiles == {d \in Datafiles : d.status1 = RUNNING /\ d.r2resolves}

ExperimentDatafiles == {d \in Datafiles : d.r2resolves}

RolloutDatafiles == {d \in Datafiles : d.status1 = RUNNING /\ d.hasV2}

FeatureDatafiles == {d \in Datafiles : d.hasV2 /\ d.r2resolves}

\* User attributes: the audiences the user is in and the reserved bucketing id attribute.
AttributeSets ==
    {[audiences |-> {}, bucketing_id |-> PyNone],
     [audiences |-> {"A"}, bucketing_id |-> PyNone],
     [audiences |-> {"A"}, bucketing_id |-> PyStr("bX")],
     [audiences |-> {}, bucketing_id |-> PyInt]}

\* Forced decisions set on a user context: (flag key, rule key) -> variation key.
ExperimentForcedDecisions ==
    {[c \in {<<"f1", "exp1">>} |-> "a"],
     [c \in {<<"f1", "exp1">>} |-> "on3"]}

RuleForcedDecisions ==
    {[c \in {<<"f1", "rule2">>, <<"f2", "rule1">>, <<"f2", "rule3">>} |->
         CASE c = <<"f1", "rule2">> -> "on2"
           [] c = <<"f2", "rule1">> -> "zz"
           [] OTHER -> "on1"]}

UserContextsWith(forced_decision_sets) ==
    [user_id : Users, attributes : AttributeSets, forced_decisions : forced_decision_sets]

\* The batch calls followed: every user and attribute set without forced decisions
\* and with an empty stored profile; one user with a filled stored profile, and
\* ignoring the profile service; one user with each forced-decision set; one user
\* whose profile writes fail.
PlainUserContexts ==
    {c \in UserContextsWith({EmptyDict}) : c.attributes.bucketing_id.type # "int"}

ForcedUserContexts ==
    {c \in UserContextsWith(ExperimentForcedDecisions \cup RuleForcedDecisions) :
        c.user_id = "u1" /\ c.attributes = [audiences |-> {"A"}, bucketing_id |-> PyNone]}

\* The writes that fail on a failing profile tracker.
FailingWrites == {"e1", "save"}

FeatureCalls ==
    {[user_context |-> c, options |-> {}, lookup |-> EmptyDict, raises |-> {}] :
        c \in PlainUserContexts \cup ForcedUserContexts}
    \cup {[user_context |-> c, options |-> {}, lookup |-> [e \in {"e1"} |-> "v1"], raises |-> {}] :
             c \in {x \in PlainUserContexts : x.user_id = "u2"}}
    \cup {[user_context |-> c, options |-> {IGNORE_USER_PROFILE_SERVICE},
           lookup |-> [e \in {"e1"} |-> "v1"], raises |-> {}] :
             c \in {x \in PlainUserContexts : x.user_id = "u2"}}
    \cup {[user_context |-> c, options |-> {}, lookup |-> EmptyDict, raises |-> FailingWrites] :
             c \in {x \in PlainUserContexts :
                       x.user_id = "u2" /\ x.attributes.bucketing_id.type = "str"}}

\* The user contexts without forced decisions, and the decision contexts (flag key,
\* rule key) that validated_forced_decision is called with by the host.
UnforcedUserContexts ==
    {c \in UserContextsWith({EmptyDict}) :
        c.user_id = "u1" /\ c.attributes = [audiences |-> {"A"}, bucketing_id |-> PyNone]}

FlagKeys == {"f1", "f2"}

RuleKeys == {"exp1", "rule1", "rule2", "rule3"}

OptionSets == {{}, {IGNORE_USER_PROFILE_SERVICE}}

\* What UserProfileService.lookup may hold for a user.
Profiles ==
    {EmptyDict, [e \in {"e1"} |-> "v1"], [e \in {"e1"} |-> "v2"]}

RECURSIVE SeqsUpTo(_, _)
SeqsUpTo(S, n) ==
    IF n = 0 THEN {<<>>}
    ELSE LET shorter == SeqsUpTo(S, n - 1)
         IN  shorter \cup {Append(q, x) : q \in shorter, x \in S}

FeatureLists == SeqsUpTo({f \in Features : f.key \notin {"f4", "f5"}}, MaxFeatures)

ExperimentKeys == {"exp1", "exp2", "nope"}

\* The experiment keys the host forces variations of, per user: one user in every
\* experiment, the other in one experiment only.
SetExperimentKeys(user_id) ==
    IF user_id = "u1" THEN ExperimentKeys ELSE ExperimentKeys \ {"exp2"}

VariationKeyArgs == {PyNone, PyInt} \cup {PyStr(k) : k \in {"", "a", "b", "c", "zz"}}

\* ------------------------------------------------------------------ state machine

NoCall == [op |-> "none"]

Init ==
    /\ forced_variation_map = EmptyDict
    /\ user_profile_service \in {None, "service"}
    /\ pc = "idle"
    /\ call = NoCall
    /\ user_profile_tracker = NoTracker
    /\ decisions = <<>>
    /\ fidx = 0
    /\ eidx = 0
    /\ feature_reasons = <<>>
    /\ index = 0
    /\ decide_reasons = <<>>
    /\ iterations = 0
    /\ events = <<>>
    /\ ret = NoCall

\* DecisionService.set_forced_variation
SetForcedVariation ==
    /\ pc = "idle"
    /\ \E datafile \in StoreDatafiles, user_id \in Users, variation_key \in VariationKeyArgs :
       \E experiment_key \in SetExperimentKeys(user_id) :
          LET r == set_forced_variation(forced_variation_map, ConfigOf(datafile),
                                        experiment_key, user_id, variation_key)
          IN  /\ forced_variation_map' = r.map
              /\ call' = [op |-> "set_forced_variation", datafile |-> datafile,
                          experiment_key |-> experiment_key, user_id |-> user_id,
                          variation_key |-> variation_key]
              /\ ret' = [result |-> r.result]
    /\ pc' = "done"
    /\ UNCHANGED <<user_profile_tracker, decisions, fidx, eidx, feature_reasons, index,
                   decide_reasons, iterations, events, user_profile_service>>

\* GetForcedVariation that consumes what it reads: a user whose forced variation was
\* returned is dropped from the map.
GetForcedVariation_consumes ==
    /\ pc = "idle"
    /\ \E datafile \in StoreDatafiles, experiment_key \in ExperimentKeys, user_id \in Users :
          LET r == get_forced_variation(forced_variation_map, ConfigOf(datafile),
                                        experiment_key, user_id)
          IN  /\ call' = [op |-> "get_forced_variation", datafile |-> datafile,
                          experiment_key |-> experiment_key, user_id |-> user_id]
              /\ ret' = r
              /\ forced_variation_map' = IF r.variation # None
                                         THEN DictDel(forced_variation_map, user_id)
                                         ELSE forced_variation_map
    /\ pc' = "done"
    /\ UNCHANGED <<user_profile_tracker, decisions, fidx, eidx, feature_reasons,
                   index, decide_reasons, iterations, events, user_profile_service>>

\* DecisionService.get_forced_variation
GetForcedVariation ==
    /\ pc = "idle"
    /\ \E datafile \in StoreDatafiles, experiment_key \in ExperimentKeys, user_id \in Users :
          LET r == get_forced_variation(forced_variation_map, ConfigOf(datafile),
                                        experiment_key, user_id)
          IN  /\ call' = [op |-> "get_forced_variation", datafile |-> datafile,
                          experiment_key |-> experiment_key, user_id |-> user_id]
              /\ ret' = r
    /\ pc' = "done"
    /\ UNCHANGED <<forced_variation_map, user_profile_tracker, decisions, fidx, eidx, feature_reasons,
                   index, decide_reasons, iterations, events, user_profile_service>>

\* DecisionService.get_variation, called by the host with a tracker of its own or none.
GetVariation ==
    /\ pc = "idle"
    /\ \E datafile \in ExperimentDatafiles, experiment_id \in {"e1", "e2"},
          user_context \in UserContextsWith({EmptyDict}),
          tracker \in {NoTracker} \cup {load_user_profile(p, {}) : p \in Profiles}
                      \cup {load_user_profile(EmptyDict, FailingWrites)},
          options \in OptionSets :
          LET project_config == ConfigOf(datafile)
              experiment == get_experiment_from_id(project_config, experiment_id)
              r == get_variation(forced_variation_map, project_config, experiment,
                                 user_context, tracker, <<>>, options)
          IN  /\ call' = [op |-> "get_variation", datafile |-> datafile,
                          experiment |-> experiment_id, user_context |-> user_context,
                          user_profile_tracker |-> tracker, options |-> options]
              /\ ret' = [variation |-> r.variation, reasons |-> r.reasons]
              /\ events' = r.events
              /\ user_profile_tracker' = r.tracker
              /\ pc' = IF Escaped(r.events) THEN "raised" ELSE "done"
    /\ UNCHANGED <<forced_variation_map, decisions, fidx, eidx, feature_reasons, index,
                   decide_reasons, iterations, user_profile_service>>

\* The feature the rollout walk in progress is for.
CurrentFeature ==
    IF call.op = "get_variation_for_rollout" THEN call.feature ELSE call.features[fidx]

\* RecordRolloutDecision that records only a rollout Decision that names a variation.
RecordRolloutDecision_skips_null(decision, reasons_so_far, rollout_reasons) ==
    /\ decisions' = IF decision.variation = None THEN decisions
                    ELSE Append(decisions, [decision |-> decision,
                                            reasons |-> reasons_so_far \o rollout_reasons])
    /\ fidx' = fidx + 1
    /\ eidx' = 1
    /\ feature_reasons' = <<>>
    /\ pc' = "features"
    /\ ret' = ret

\* get_variations_for_feature_list, lines 610-624: the rollout's Decision is recorded
\* with the feature's reasons extended by the rollout's.
RecordRolloutDecision(decision, reasons_so_far, rollout_reasons) ==
    /\ decisions' = Append(decisions, [decision |-> decision,
                                       reasons |-> reasons_so_far \o rollout_reasons])
    /\ fidx' = fidx + 1
    /\ eidx' = 1
    /\ feature_reasons' = <<>>
    /\ pc' = "features"
    /\ ret' = ret

\* DecisionService.validated_forced_decision, called by the host: the variation, the
\* reasons and the user context as the call leaves it.
ValidatedForcedDecision ==
    /\ pc = "idle"
    /\ \E datafile \in FeatureDatafiles, flag_key \in FlagKeys, rule_key \in RuleKeys,
          user_context \in ForcedUserContexts \cup UnforcedUserContexts :
          LET r == validated_forced_decision(ConfigOf(datafile), flag_key, rule_key, user_context)
          IN  /\ call' = [op |-> "validated_forced_decision", datafile |-> datafile,
                          flag_key |-> flag_key, rule_key |-> rule_key,
                          user_context |-> user_context]
              /\ ret' = [variation |-> r.variation, reasons |-> r.reasons,
                         user_context |-> [user_context EXCEPT
                                               !.forced_decisions = r.forced_decisions]]
    /\ pc' = "done"
    /\ UNCHANGED <<forced_variation_map, user_profile_tracker, decisions, fidx, eidx,
                   feature_reasons, index, decide_reasons, iterations, events,
                   user_profile_service>>

\* DecisionService.get_variation_for_rollout, called by the host: up to the loop.
GetVariationForRollout ==
    /\ pc = "idle"
    /\ \E datafile \in RolloutDatafiles, feature \in Features,
          user_context \in UserContextsWith({EmptyDict} \cup RuleForcedDecisions) :
          LET entry == rollout_entry(ConfigOf(datafile), feature)
          IN  /\ call' = [op |-> "get_variation_for_rollout", datafile |-> datafile,
                          feature |-> feature, user_context |-> user_context]
              /\ decide_reasons' = entry.reasons
              /\ IF entry.returns
                 THEN /\ pc' = "done"
                      /\ ret' = [decision |-> NoDecision, reasons |-> entry.reasons]
                 ELSE /\ pc' = "rollout"
                      /\ ret' = ret
    /\ index' = 0
    /\ iterations' = 0
    /\ UNCHANGED <<forced_variation_map, user_profile_tracker, decisions, fidx, eidx, feature_reasons,
                   events, user_profile_service>>

\* DecisionService.get_variation_for_rollout: one pass through the while-loop, and the
\* return (to the host or to get_variations_for_feature_list) when the pass ends the walk.
RolloutIteration ==
    /\ pc = "rollout"
    /\ iterations < MaxIterations
    /\ LET project_config == ConfigOf(call.datafile)
           feature == CurrentFeature
           rollout_rules == rollout_entry(project_config, feature).rollout_rules
           it == rollout_iteration(project_config, feature, call.user_context,
                                   rollout_rules, index, decide_reasons)
           decision == IF it.returns THEN it.decision ELSE NoDecision
       IN  /\ events' = events \o Stamp(it.events, fidx)
           /\ IF ~it.returns /\ it.index < Len(rollout_rules)
              THEN /\ index' = it.index
                   /\ decide_reasons' = it.reasons
                   /\ iterations' = iterations + 1
                   /\ UNCHANGED <<pc, ret, decisions, fidx, eidx, feature_reasons>>
              ELSE /\ index' = 0
                   /\ decide_reasons' = <<>>
                   /\ iterations' = 0
                   /\ IF call.op = "get_variation_for_rollout"
                      THEN /\ pc' = "done"
                           /\ ret' = [decision |-> decision, reasons |-> it.reasons]
                           /\ UNCHANGED <<decisions, fidx, eidx, feature_reasons>>
                      ELSE RecordRolloutDecision(decision, feature_reasons, it.reasons)
    /\ UNCHANGED <<forced_variation_map, call, user_profile_tracker, user_profile_service>>

\* GetVariationsForFeatureList that loads the profile whenever a profile service is
\* configured, whatever the options say.
GetVariationsForFeatureList_always_loads ==
    /\ pc = "idle"
    /\ \E datafile \in FeatureDatafiles, features \in FeatureLists, args \in FeatureCalls :
          LET loads == user_profile_service # None
          IN  /\ call' = [op |-> "get_variations_for_feature_list", datafile |-> datafile,
                          features |-> features, user_context |-> args.user_context,
                          options |-> args.options]
              /\ user_profile_tracker' = IF loads THEN load_user_profile(args.lookup, args.raises)
                                         ELSE NoTracker
              /\ events' = IF loads
                           THEN <<Event("load_user_profile", args.user_context.user_id, None)>>
                           ELSE <<>>
    /\ decisions' = <<>>
    /\ fidx' = 1
    /\ eidx' = 1
    /\ pc' = "features"
    /\ UNCHANGED <<forced_variation_map, feature_reasons, index, decide_reasons, iterations,
                   user_profile_service, ret>>

\* DecisionService.get_variations_for_feature_list, lines 561-573: the profile is loaded.
GetVariationsForFeatureList ==
    /\ pc = "idle"
    /\ \E datafile \in FeatureDatafiles, features \in FeatureLists, args \in FeatureCalls :
          LET ignore_ups == IGNORE_USER_PROFILE_SERVICE \in args.options
              loads == user_profile_service # None /\ ~ignore_ups
          IN  /\ call' = [op |-> "get_variations_for_feature_list", datafile |-> datafile,
                          features |-> features, user_context |-> args.user_context,
                          options |-> args.options]
              /\ user_profile_tracker' = IF loads THEN load_user_profile(args.lookup, args.raises)
                                         ELSE NoTracker
              /\ events' = IF loads
                           THEN <<Event("load_user_profile", args.user_context.user_id, None)>>
                           ELSE <<>>
    /\ decisions' = <<>>
    /\ fidx' = 1
    /\ eidx' = 1
    /\ pc' = "features"
    /\ UNCHANGED <<forced_variation_map, feature_reasons, index, decide_reasons, iterations,
                   user_profile_service, ret>>

\* ExperimentStep without the break: after a decision the loop goes on to the
\* feature's next experiment.
ExperimentStep_no_break ==
    /\ pc = "features"
    /\ fidx <= Len(call.features)
    /\ eidx <= Len(call.features[fidx].experimentIds)
    /\ LET feature == call.features[fidx]
       IN  \E fe \in {feature_experiment(forced_variation_map, ConfigOf(call.datafile), feature,
                                         call.user_context, call.options,
                                         feature.experimentIds[eidx],
                                         [feature_reasons |-> feature_reasons,
                                          tracker |-> user_profile_tracker,
                                          events |-> <<>>])} :
              /\ user_profile_tracker' = fe.tracker
              /\ events' = events \o Stamp(fe.events, fidx)
              /\ decisions' = IF fe.experiment_decision_found
                              THEN Append(decisions, [decision |-> fe.decision,
                                                      reasons |-> fe.feature_reasons])
                              ELSE decisions
              /\ feature_reasons' = fe.feature_reasons
              /\ IF eidx = Len(feature.experimentIds) /\ fe.experiment_decision_found
                 THEN fidx' = fidx + 1 /\ eidx' = 1
                 ELSE eidx' = eidx + 1 /\ fidx' = fidx
    /\ UNCHANGED <<forced_variation_map, pc, call, index, decide_reasons, iterations,
                   user_profile_service, ret>>

\* DecisionService.get_variations_for_feature_list, lines 581-608: one pass through the
\* loop over feature.experimentIds. The first experiment that gives a variation ends
\* the feature with a FEATURE_TEST Decision.
ExperimentStep ==
    /\ pc = "features"
    /\ fidx <= Len(call.features)
    /\ eidx <= Len(call.features[fidx].experimentIds)
    /\ LET feature == call.features[fidx]
       IN  \E fe \in {feature_experiment(forced_variation_map, ConfigOf(call.datafile), feature,
                                         call.user_context, call.options,
                                         feature.experimentIds[eidx],
                                         [feature_reasons |-> feature_reasons,
                                          tracker |-> user_profile_tracker,
                                          events |-> <<>>])} :
              /\ user_profile_tracker' = fe.tracker
              /\ events' = events \o Stamp(fe.events, fidx)
              /\ pc' = IF Escaped(fe.events) THEN "raised" ELSE pc
              /\ IF fe.experiment_decision_found
                 THEN /\ decisions' = Append(decisions, [decision |-> fe.decision,
                                                         reasons |-> fe.feature_reasons])
                      /\ fidx' = fidx + 1
                      /\ eidx' = 1
                      /\ feature_reasons' = <<>>
                 ELSE /\ eidx' = eidx + 1
                      /\ feature_reasons' = fe.feature_reasons
                      /\ UNCHANGED <<decisions, fidx>>
    /\ UNCHANGED <<forced_variation_map, call, index, decide_reasons, iterations,
                   user_profile_service, ret>>

\* DecisionService.get_variations_for_feature_list, lines 610-614: no experiment gave a
\* decision (or the feature has none), so get_variation_for_rollout is entered.
FeatureRollout ==
    /\ pc = "features"
    /\ fidx <= Len(call.features)
    /\ eidx > Len(call.features[fidx].experimentIds)
    /\ LET feature == call.features[fidx]
           entry == rollout_entry(ConfigOf(call.datafile), feature)
       IN  /\ events' = events \o Stamp(<<Event("get_variation_for_rollout", feature.key, None)>>, fidx)
           /\ IF entry.returns
              THEN /\ RecordRolloutDecision(NoDecision, feature_reasons, entry.reasons)
                   /\ UNCHANGED decide_reasons
              ELSE /\ pc' = "rollout"
                   /\ decide_reasons' = entry.reasons
                   /\ UNCHANGED <<decisions, fidx, eidx, feature_reasons, ret>>
    /\ index' = 0
    /\ iterations' = 0
    /\ UNCHANGED <<forced_variation_map, call, user_profile_tracker, user_profile_service>>

\* DecisionService.get_variations_for_feature_list, lines 626-629: the profile is saved
\* (UserProfileTracker.save_user_profile writes only an updated profile) and the
\* decisions are returned.
ReturnDecisions ==
    /\ pc = "features"
    /\ fidx > Len(call.features)
    /\ LET ignore_ups == IGNORE_USER_PROFILE_SERVICE \in call.options
           saves == user_profile_service # None /\ user_profile_tracker.present /\ ~ignore_ups
           saved == IF saves
                    THEN save_user_profile(user_profile_tracker, call.user_context.user_id)
                    ELSE <<>>
       IN  /\ events' = events \o saved
           /\ pc' = IF Escaped(saved) THEN "raised" ELSE "done"
    /\ ret' = decisions
    /\ UNCHANGED <<forced_variation_map, call, user_profile_tracker, decisions, fidx, eidx,
                   feature_reasons, index, decide_reasons, iterations, user_profile_service>>

\* The host takes the returned value; the service is ready for the next call.
Return ==
    /\ pc \in {"done", "raised"}
    /\ pc' = "idle"
    /\ call' = NoCall
    /\ user_profile_tracker' = NoTracker
    /\ decisions' = <<>>
    /\ fidx' = 0
    /\ eidx' = 0
    /\ feature_reasons' = <<>>
    /\ index' = 0
    /\ decide_reasons' = <<>>
    /\ iterations' = 0
    /\ events' = <<>>
    /\ ret' = NoCall
    /\ UNCHANGED <<forced_variation_map, user_profile_service>>

Next ==
    \/ SetForcedVariation
    \/ GetForcedVariation
    \/ GetVariation
    \/ ValidatedForcedDecision
    \/ GetVariationForRollout
    \/ RolloutIteration
    \/ GetVariationsForFeatureList
    \/ ExperimentStep
    \/ FeatureRollout
    \/ ReturnDecisions
    \/ Return

Spec == Init /\ [][Next]_vars

\* ------------------------------------------------------------------ event dispatcher

\* EventDispatchConfig.RETRIES: the retries the HTTP adapter may make.
RETRIES == 3

GET == "GET"

POST == "POST"

\* The verbs an Event may carry.
HTTPVerbs == {GET, POST, "PUT"}

\* What one attempt to send the request ends in: the status of the response, or the
\* error of the connection (refused or reset, or no answer within REQUEST_TIMEOUT).
Response(status) == [status |-> status, error |-> ""]

Failure(error) == [status |-> 0, error |-> error]

Statuses == {200, 404, 500, 503}

ConnectionErrors == {"ConnectionError", "ReadTimeout"}

Outcomes == {Response(s) : s \in Statuses} \cup {Failure(e) : e \in ConnectionErrors}

\* Retry(total=RETRIES, status_forcelist=[500, 502, 503, 504]): whether the adapter
\* sends the request again after an attempt with this outcome. Statuses of the list
\* and errors while reading the response are retried for idempotent verbs only,
\* errors of the connection for every verb.
status_forcelist == {500, 502, 503, 504}

is_retry(http_verb, outcome) ==
    \/ outcome.status \in status_forcelist /\ http_verb = GET
    \/ outcome.error = "ConnectionError"
    \/ outcome.error = "ReadTimeout" /\ http_verb = GET

\* The exception with which session.get(...).raise_for_status() (or post) ends after
\* a last attempt with this outcome, or None: the adapter's error when the retries are
\* used up or the error is not retried, HTTPError from raise_for_status for a 4xx or
\* 5xx response.
request_exception(http_verb, outcome) ==
    IF outcome.error # ""
    THEN IF is_retry(http_verb, outcome) THEN "ConnectionError" ELSE outcome.error
    ELSE IF is_retry(http_verb, outcome) THEN "RetryError"
    ELSE IF outcome.status >= 400 THEN "HTTPError"
    ELSE None

\* The subclasses of requests.exceptions.RequestException that a request ends with.
RequestException == {"HTTPError", "ConnectionError", "ReadTimeout", "RetryError"}

\* An except clause for HTTPError alone.
caught_http_error_only(exception) == exception = "HTTPError"

\* EventDispatcher.dispatch_event, line 80: the except clause catches the exception.
caught(exception) == exception \in RequestException

\* EventDispatcher.dispatch_event is called with an Event. Only GET and POST send
\* a request.
DispatchEvent ==
    /\ pc = "idle"
    /\ \E http_verb \in HTTPVerbs :
          /\ call' = [op |-> "dispatch_event", http_verb |-> http_verb]
          /\ IF http_verb \in {GET, POST}
             THEN pc' = "sending" /\ ret' = ret
             ELSE pc' = "done" /\ ret' = [exception |-> None, logged |-> FALSE]
    /\ events' = <<>>
    /\ UNCHANGED <<forced_variation_map, user_profile_tracker, decisions, fidx, eidx,
                   feature_reasons, index, decide_reasons, iterations, user_profile_service>>

\* One attempt of the session to send the request, and what dispatch_event does when
\* it was the last: the exception of the request, if any, is caught and logged at
\* lines 80-81, or leaves dispatch_event.
Send ==
    /\ pc = "sending"
    /\ \E outcome \in Outcomes :
          LET exception == request_exception(call.http_verb, outcome)
          IN  /\ events' = Append(events, Event("send", call.http_verb, outcome))
              /\ IF is_retry(call.http_verb, outcome) /\ Len(events) < RETRIES
                 THEN UNCHANGED <<pc, ret>>
                 ELSE IF exception = None
                 THEN pc' = "done" /\ ret' = [exception |-> None, logged |-> FALSE]
                 ELSE IF caught(exception)
                 THEN pc' = "done" /\ ret' = [exception |-> exception, logged |-> TRUE]
                 ELSE pc' = "raised" /\ ret' = [exception |-> exception, logged |-> FALSE]
    /\ UNCHANGED <<forced_variation_map, call, user_profile_tracker, decisions, fidx, eidx,
                   feature_reasons, index, decide_reasons, iterations, user_profile_service>>

DispatchNext ==
    \/ DispatchEvent
    \/ Send
    \/ Return

DispatchSpec == Init /\ [][DispatchNext]_vars

\* ------------------------------------------------------------------ properties

\* The call `op` has just returned.
Returned(op) == pc = "done" /\ call.op = op

\* The operations of the history, in order.
EventOps == [k \in 1..Len(events) |-> events[k].op]

\* What each layer holds for the user and the experiment of a get_variation call,
\* read from the data the call was given and not through the resolver.
CalledExperiment == ConfigOf(call.datafile).experiment_id_map[call.experiment]

CalledUser == call.user_context.user_id

StoreEntry ==
    IF CalledUser \in DOMAIN forced_variation_map
       /\ call.experiment \in DOMAIN forced_variation_map[CalledUser]
    THEN forced_variation_map[CalledUser][call.experiment]
    ELSE None

StoreYields == StoreEntry \in CalledExperiment.variations

WhitelistMatches ==
    IF CalledUser \in DOMAIN CalledExperiment.forcedVariations
    THEN {v \in CalledExperiment.variations :
             VariationKeys[v] = CalledExperiment.forcedVariations[CalledUser]}
    ELSE {}

ProfileConsulted ==
    call.user_profile_tracker.present /\ IGNORE_USER_PROFILE_SERVICE \notin call.options

ProfileEntry ==
    IF ProfileConsulted /\ call.experiment \in DOMAIN call.user_profile_tracker.user_profile
    THEN call.user_profile_tracker.user_profile[call.experiment]
    ELSE None

ProfileYields == ProfileEntry \in CalledExperiment.variations

\* Whether the user meets the audience conditions of experiment e, and the variation
\* the user's bucketing id falls into, read from the data.
MeetsAudience(e, uc) ==
    e.audienceConditions = {} \/ \E a \in e.audienceConditions : a \in uc.attributes.audiences

Bucketed(e, uc) ==
    LET attribute == uc.attributes.bucketing_id
        id == IF attribute.type = "str" THEN attribute.value ELSE uc.user_id
    IN  IF e.trafficAllocation[id] \in e.variations THEN e.trafficAllocation[id] ELSE None

AudienceMatches == MeetsAudience(CalledExperiment, call.user_context)

BucketValue ==
    IF AudienceMatches THEN Bucketed(CalledExperiment, call.user_context) ELSE None

\* C1: for a running experiment get_variation answers from the first layer that
\* yields a variation, in the order forced-variation store, whitelist, stored profile,
\* audience and bucketing, and consults no layer below the one that answered.
C1_Precedence ==
    (Returned("get_variation") /\ CalledExperiment.status = RUNNING) =>
        /\ StoreYields =>
               /\ ret.variation = StoreEntry
               /\ EventOps = <<"get_forced_variation">>
        /\ (~StoreYields /\ WhitelistMatches # {}) =>
               /\ ret.variation \in WhitelistMatches
               /\ EventOps = <<"get_forced_variation", "get_whitelisted_variation">>
        /\ (~StoreYields /\ WhitelistMatches = {} /\ ProfileYields) =>
               /\ ret.variation = ProfileEntry
               /\ EventOps = <<"get_forced_variation", "get_whitelisted_variation",
                               "get_stored_variation">>
        /\ (~StoreYields /\ WhitelistMatches = {} /\ ~ProfileYields) =>
               /\ ret.variation = BucketValue
               /\ \E k \in 1..Len(events) : events[k].op = "does_user_meet_audience_conditions"

\* C1 witness: store, whitelist, profile and bucketing all hold a variation for the
\* user, store and whitelist hold different ones, and the call has returned.
C1_Witness ==
    /\ Returned("get_variation")
    /\ CalledExperiment.status = RUNNING
    /\ StoreYields /\ WhitelistMatches # {} /\ ProfileYields /\ BucketValue # None
    /\ StoreEntry \notin WhitelistMatches
    /\ ProfileEntry # StoreEntry

\* C2 as stated: whenever the forced-variation store holds an entry for the user and
\* the experiment, get_variation returns that variation.
C2_AnyExperiment ==
    (Returned("get_variation") /\ StoreEntry # None) => ret.variation = StoreEntry

\* C2: if the experiment is running and the store holds for the user and the
\* experiment a variation of that experiment, get_variation returns that variation,
\* whether or not the user meets the experiment's audience conditions.
C2_StoreWins ==
    (Returned("get_variation") /\ CalledExperiment.status = RUNNING /\ StoreYields) =>
        ret.variation = StoreEntry

\* C2 witness: the store's variation was returned to a user who fails the audience
\* conditions of the running experiment.
C2_Witness ==
    /\ Returned("get_variation")
    /\ CalledExperiment.status = RUNNING
    /\ StoreYields
    /\ ~AudienceMatches
    /\ ret.variation = StoreEntry

\* C3 as stated: every pass through the rollout loop that does not return leaves
\* `index` strictly larger than it found it, the pass over a rule whose id the
\* config does not resolve included.
C3_IndexStrictlyIncreases ==
    [][(pc = "rollout" /\ pc' = "rollout") => index' > index]_vars

\* The rules of the rollout of the feature at position i of the call in progress
\* (position 0: the feature of a direct get_variation_for_rollout call).
FeatureAt(i) == IF i = 0 THEN call.feature ELSE call.features[i]

RulesAt(i) == ConfigOf(call.datafile).rollout_id_map[FeatureAt(i).rolloutId]

LastRuleAt(i) == RulesAt(i)[Len(RulesAt(i))].id

\* History entry k records a bucketing failure at a rollout rule that is not the last.
FailedBucketAt(k) ==
    /\ events[k].op = "bucket"
    /\ events[k].variation = None
    /\ FeatureAt(events[k].feature).rolloutId # None
    /\ \E j \in 1..(Len(RulesAt(events[k].feature)) - 1) :
           RulesAt(events[k].feature)[j].id = events[k].exp

\* C4: once the user meets the audience of a rollout rule that is not the last and
\* bucketing at it gives no variation, whatever the walk evaluates next for that
\* feature (forced-decision check, audience, bucketing) is about the last rule,
\* the last rule is evaluated, and if bucketing at the last rule gives a variation
\* that rule and variation are the ROLLOUT Decision.
C4_SkipToEveryoneElse ==
    (call.op = "get_variation_for_rollout") =>
        \A k \in 1..Len(events) :
            FailedBucketAt(k) =>
                /\ \A m \in (k + 1)..Len(events) : events[m].exp = LastRuleAt(0)
                /\ pc = "done" =>
                       /\ \E m \in (k + 1)..Len(events) : events[m].exp = LastRuleAt(0)
                       /\ \A m \in (k + 1)..Len(events) :
                              (events[m].op = "bucket" /\ events[m].variation # None) =>
                                  ret.decision = Decision(LastRuleAt(0), events[m].variation, ROLLOUT)

\* C4 witness: bucketing failed at the first of three rules, the second rule would
\* have given the user a variation, and the Decision is the last rule's.
C4_Witness ==
    /\ Returned("get_variation_for_rollout")
    /\ \E k \in 1..Len(events) : FailedBucketAt(k) /\ events[k].exp = RulesAt(0)[1].id
    /\ Len(RulesAt(0)) = 3
    /\ RulesAt(0)[2].audienceConditions = {}
    /\ RulesAt(0)[2].trafficAllocation[call.user_context.user_id] # None
    /\ call.user_context.attributes.bucketing_id.type = "NoneType"
    /\ ret.decision.experiment = LastRuleAt(0)
    /\ ret.decision.variation # None

\* C5: for an experiment that is not running get_variation returns no variation
\* whatever the store, the whitelist and the stored profile hold, evaluates no
\* audience, buckets nothing and leaves the profile tracker as it was.
C5_NotRunning ==
    (Returned("get_variation") /\ CalledExperiment.status # RUNNING) =>
        /\ ret.variation = None
        /\ events = <<>>
        /\ user_profile_tracker = call.user_profile_tracker

\* C5 witness: the experiment is not running while store, whitelist, profile and
\* bucketing each hold a variation for the user.
C5_Witness ==
    /\ Returned("get_variation")
    /\ CalledExperiment.status # RUNNING
    /\ StoreYields /\ WhitelistMatches # {} /\ ProfileYields /\ BucketValue # None
    /\ ret.variation = None

\* ---- the batch orchestrator, read from the history of the call in progress

Range(q) == {q[k] : k \in 1..Len(q)}

InBatch == call.op = "get_variations_for_feature_list"

\* The user context holds, for the feature and experiment e, a forced decision
\* whose variation key is one of the feature's variations.
HasValidForcedDecision(f, e, uc) ==
    /\ <<f.key, e.key>> \in DOMAIN uc.forced_decisions
    /\ \E v \in ConfigOf(call.datafile).flag_variations_map[f.key] :
           VariationKeys[v] = uc.forced_decisions[<<f.key, e.key>>]

\* The history entry ev is about an experiment of the feature at position i.
OfExperiment(ev, i) ==
    ev.feature = i /\ ev.exp \in Range(call.features[i].experimentIds)

\* The experiments evaluated for the feature at position i, in the order evaluated:
\* the evaluation of each starts with the check for a forced decision.
Tried(i) ==
    LET checks == SelectSeq(events, LAMBDA ev : OfExperiment(ev, i)
                                                 /\ ev.op = "validated_forced_decision")
    IN  [k \in 1..Len(checks) |-> checks[k].exp]

\* The feature's experiment ids the config resolves, in the feature's order.
Known(i) ==
    SelectSeq(call.features[i].experimentIds,
              LAMBDA id : id \in DOMAIN ConfigOf(call.datafile).experiment_id_map)

\* A history entry in which an experiment gave a variation.
Yields(ev) ==
    ev.op \in {"validated_forced_decision", "get_variation"} /\ ev.variation # None

\* The first experiment of the feature at position i is not running, the second is
\* running, and the user meets its audience and is bucketed into one of its variations.
SecondExperimentCase(i) ==
    /\ Len(call.features[i].experimentIds) >= 2
    /\ Known(i) = call.features[i].experimentIds
    /\ LET cfg == ConfigOf(call.datafile)
           first == cfg.experiment_id_map[Known(i)[1]]
           second == cfg.experiment_id_map[Known(i)[2]]
       IN  /\ first.status # RUNNING
           /\ second.status = RUNNING
           /\ MeetsAudience(second, call.user_context)
           /\ Bucketed(second, call.user_context) # None

\* C6 as stated: if the first experiment of a feature is not running and the second
\* is running and the user qualifies for it, the Decision names the second experiment.
C6_SecondExperimentNamed ==
    InBatch =>
        \A i \in 1..Len(decisions) :
            SecondExperimentCase(i) =>
                /\ decisions[i].decision.experiment = Known(i)[2]
                /\ decisions[i].decision.source = FEATURE_TEST

\* C6: the experiments of a feature are evaluated in the feature's order; the first
\* that gives a variation is the FEATURE_TEST Decision with that variation and no
\* later experiment is evaluated. If the first experiment is not running and has no
\* valid forced decision, and the second is running and the user qualifies for it,
\* the Decision names the second experiment.
C6_FirstExperimentWins ==
    InBatch =>
        \A i \in 1..Len(call.features) :
            LET tried == Tried(i)
                known == Known(i)
            IN
            /\ Len(tried) <= Len(known)
            /\ \A j \in 1..Len(tried) : tried[j] = known[j]
            /\ \A k \in 1..Len(events) :
                   (OfExperiment(events[k], i) /\ Yields(events[k])) =>
                       /\ \A m \in (k + 1)..Len(events) :
                              OfExperiment(events[m], i) => events[m].exp = events[k].exp
                       /\ i <= Len(decisions)
                       /\ decisions[i].decision =
                              Decision(events[k].exp, events[k].variation, FEATURE_TEST)
            /\ (/\ i <= Len(decisions)
                /\ SecondExperimentCase(i)
                /\ ~HasValidForcedDecision(call.features[i],
                                           ConfigOf(call.datafile).experiment_id_map[Known(i)[1]],
                                           call.user_context)) =>
                   /\ decisions[i].decision.experiment = Known(i)[2]
                   /\ decisions[i].decision.source = FEATURE_TEST

\* C6 witness: a batch has returned in which a feature's first experiment is not
\* running, the user context holds no forced decision, and the Decision is a
\* variation of the feature's second experiment.
C6_Witness ==
    /\ Returned("get_variations_for_feature_list")
    /\ call.user_context.forced_decisions = EmptyDict
    /\ \E i \in 1..Len(ret) :
           /\ SecondExperimentCase(i)
           /\ ret[i].decision.experiment = Known(i)[2]
           /\ ret[i].decision.variation # None
           /\ ret[i].decision.source = FEATURE_TEST

\* The Decision d can be a decision about feature f: none, or one of f's experiments,
\* or a rule of f's rollout.
DecisionOfFeature(d, f) ==
    \/ d = NoDecision
    \/ d.source = FEATURE_TEST /\ d.experiment \in Range(f.experimentIds)
    \/ /\ d.source = ROLLOUT
       /\ f.rolloutId # None
       /\ \E r \in Range(ConfigOf(call.datafile).rollout_id_map[f.rolloutId]) : r.id = d.experiment

\* C7: get_variations_for_feature_list returns one (Decision, reasons) pair for each
\* input feature, the i-th pair being the decision about the i-th feature; while the
\* call runs, the features before the current one have one pair each.
C7_OnePairPerFeature ==
    /\ (InBatch /\ pc \in {"features", "rollout"}) => Len(decisions) = fidx - 1
    /\ Returned("get_variations_for_feature_list") =>
           /\ Len(ret) = Len(call.features)
           /\ \A i \in 1..Len(ret) : DecisionOfFeature(ret[i].decision, call.features[i])

\* C7 witness: a batch of two different features has returned an experiment's
\* Decision for the first and a rollout rule's Decision for the second.
C7_Witness ==
    /\ Returned("get_variations_for_feature_list")
    /\ Len(call.features) = 2
    /\ call.features[1] # call.features[2]
    /\ ret[1].decision.source = FEATURE_TEST
    /\ ret[2].decision.source = ROLLOUT
    /\ ret[2].decision.variation # None

\* How many entries of the history are calls of op.
Count(op) == Cardinality({k \in 1..Len(events) : events[k].op = op})

SaveOps == {"save_user_profile", "UserProfileService.save"}

\* C8: with a profile service configured and not ignored, the batch loads the
\* profile exactly once, before anything else it does, and saves it at most once,
\* only after every feature has its decision.
C8_LoadOnceSaveOnce ==
    (InBatch /\ user_profile_service # None /\ IGNORE_USER_PROFILE_SERVICE \notin call.options) =>
        /\ Len(events) >= 1
        /\ events[1].op = "load_user_profile"
        /\ Count("load_user_profile") = 1
        /\ Count("save_user_profile") <= 1
        /\ Count("UserProfileService.save") <= 1
        /\ \A k \in 1..Len(events) :
               events[k].op \in SaveOps =>
                   /\ pc = "done"
                   /\ Len(decisions) = Len(call.features)
                   /\ \A m \in (k + 1)..Len(events) : events[m].op \in SaveOps

\* C8 witness: a batch of two features has returned after two bucketing decisions
\* went into the profile, with one load and one save.
C8_Witness ==
    /\ Returned("get_variations_for_feature_list")
    /\ Len(call.features) = 2
    /\ Count("load_user_profile") = 1
    /\ Count("update_user_profile") = 2
    /\ Count("UserProfileService.save") = 1

\* The rollout resolver was entered for the feature at position i.
RolloutEvaluated(i) ==
    \E k \in 1..Len(events) :
        events[k].feature = i /\ events[k].op = "get_variation_for_rollout"

ExperimentYielded(i) ==
    \E k \in 1..Len(events) : OfExperiment(events[k], i) /\ Yields(events[k])

\* C9: for every feature that has been decided, the rollout resolver was entered if
\* and only if none of the feature's experiments gave a variation; when it was, the
\* recorded Decision is the rollout's, null or not; a feature without experiments
\* whose rollout gives no variation gets (null, null, ROLLOUT).
C9_RolloutFallback ==
    (InBatch /\ pc \in {"features", "done"}) =>
        \A i \in 1..(fidx - 1) :
            /\ RolloutEvaluated(i) <=> ~ExperimentYielded(i)
            /\ i <= Len(decisions)
            /\ RolloutEvaluated(i) => decisions[i].decision.source = ROLLOUT
            /\ ~RolloutEvaluated(i) => decisions[i].decision.source = FEATURE_TEST
            /\ (/\ call.features[i].experimentIds = <<>>
                /\ \A k \in 1..Len(events) :
                       events[k].feature = i => events[k].variation = None) =>
                   decisions[i].decision = NoDecision

\* C9 witness: a feature without experiments whose rollout has rules got
\* (null, null, ROLLOUT) after the audience of a rule was met and bucketing failed.
C9_Witness ==
    /\ Returned("get_variations_for_feature_list")
    /\ \E i \in 1..Len(ret) :
           /\ call.features[i].experimentIds = <<>>
           /\ RolloutEvaluated(i)
           /\ \E k \in 1..Len(events) : events[k].feature = i /\ events[k].op = "bucket"
           /\ ret[i].decision = NoDecision

\* The arguments c of a set_forced_variation call name no experiment of the config,
\* or give a variation key other than None that is not a non-empty string or is the
\* key of no variation of the experiment.
RejectedArguments(c) ==
    LET cfg == ConfigOf(c.datafile)
        named == {e \in {cfg.experiment_id_map[i] : i \in DOMAIN cfg.experiment_id_map} :
                     e.key = c.experiment_key}
    IN  \/ named = {}
        \/ /\ c.variation_key.type # "NoneType"
           /\ \/ c.variation_key.type # "str"
              \/ c.variation_key.value = ""
              \/ \A e \in named : \A v \in e.variations : VariationKeys[v] # c.variation_key.value

\* C10: set_forced_variation called with an unknown experiment key, or with a
\* variation key other than None that is not a non-empty string or not a variation
\* of the experiment, returns False and leaves the forced-variation map as it was.
C10_RejectedSetLeavesMap ==
    [][(/\ pc = "idle"
        /\ call'.op = "set_forced_variation"
        /\ RejectedArguments(call')) =>
           (ret'.result = FALSE /\ forced_variation_map' = forced_variation_map)]_vars

\* C10 witness: a call that gave the key of another experiment's variation returned
\* False while the map holds an entry for that user and experiment.
C10_Witness ==
    /\ Returned("set_forced_variation")
    /\ RejectedArguments(call)
    /\ call.variation_key.type = "str"
    /\ call.variation_key.value # ""
    /\ ret.result = FALSE
    /\ call.user_id \in DOMAIN forced_variation_map
    /\ \E e \in DOMAIN forced_variation_map[call.user_id] :
           ConfigOf(call.datafile).experiment_id_map[e].key = call.experiment_key

\* ---- the forced-variation store

\* The variation id the map m holds for user u and experiment id e, or None.
Entry(m, u, e) == IF u \in DOMAIN m /\ e \in DOMAIN m[u] THEN m[u][e] ELSE None

\* The experiments of the config of call c that carry the experiment key of c.
NamedExperiments(c) ==
    LET cfg == ConfigOf(c.datafile)
    IN  {e \in {cfg.experiment_id_map[i] : i \in DOMAIN cfg.experiment_id_map} :
            e.key = c.experiment_key}

AllExperimentIds == {"e1", "e2", "r1", "r2", "r3"}

\* C11: set_forced_variation with a known experiment key and variation key None
\* returns True; the map is unchanged if it held nothing for (user, experiment);
\* afterwards the map holds nothing for (user, experiment), get_forced_variation for
\* them gives no variation, and what the map holds for every other (user,
\* experiment) is what it held before.
C11_ClearRemovesOnlyThatEntry ==
    [][(/\ pc = "idle"
        /\ call'.op = "set_forced_variation"
        /\ NamedExperiments(call') # {}
        /\ call'.variation_key.type = "NoneType") =>
           \A x \in NamedExperiments(call') :
               /\ ret'.result = TRUE
               /\ Entry(forced_variation_map, call'.user_id, x.id) = None =>
                      forced_variation_map' = forced_variation_map
               /\ Entry(forced_variation_map', call'.user_id, x.id) = None
               /\ get_forced_variation(forced_variation_map', ConfigOf(call'.datafile),
                                       call'.experiment_key, call'.user_id).variation = None
               /\ \A u \in Users, e \in AllExperimentIds :
                      <<u, e>> # <<call'.user_id, x.id>> =>
                          Entry(forced_variation_map', u, e) = Entry(forced_variation_map, u, e)]_vars

\* C11 witness: a clear for a user and experiment has returned True; the user is left
\* with an entry for another experiment and another user with an entry of their own.
C11_Witness ==
    /\ Returned("set_forced_variation")
    /\ call.variation_key.type = "NoneType"
    /\ ret.result = TRUE
    /\ \E x \in NamedExperiments(call) :
           /\ call.user_id \in DOMAIN forced_variation_map
           /\ Entry(forced_variation_map, call.user_id, x.id) = None
           /\ DOMAIN forced_variation_map[call.user_id] # {}
    /\ \E u \in Users \ {call.user_id} :
           u \in DOMAIN forced_variation_map /\ DOMAIN forced_variation_map[u] # {}

\* C12: get_forced_variation gives no variation when the user is not in the map, the
\* experiment key is unknown, the user has no entry for the experiment, or the
\* stored variation id is no variation of the experiment in the config passed; in
\* every other case it gives the variation whose id is stored. It always returns.
C12_GetForcedVariation ==
    Returned("get_forced_variation") =>
        /\ NamedExperiments(call) = {} => ret.variation = None
        /\ \A x \in NamedExperiments(call) :
               LET stored == Entry(forced_variation_map, call.user_id, x.id)
               IN  ret.variation = IF stored \in x.variations THEN stored ELSE None

\* C12 witness: the map holds for the user and the experiment a variation id that
\* the config passed no longer has, and the call has returned no variation.
C12_Witness ==
    /\ Returned("get_forced_variation")
    /\ ret.variation = None
    /\ \E x \in NamedExperiments(call) :
           /\ Entry(forced_variation_map, call.user_id, x.id) # None
           /\ Entry(forced_variation_map, call.user_id, x.id) \notin x.variations

\* ---- rollouts

\* The rules of the rollout of feature f in config cfg, from the raw maps; no rules
\* when the feature names no rollout or one the config does not have.
RulesOf(cfg, f) ==
    IF f.rolloutId # None /\ f.rolloutId \in DOMAIN cfg.rollout_id_map
    THEN cfg.rollout_id_map[f.rolloutId] ELSE <<>>

\* C13: get_variation_for_rollout for a feature without rollout id, with a rollout id
\* the config does not have, or with a rollout of zero rules returns
\* Decision(None, None, ROLLOUT) at once: no forced decision, audience or bucketing
\* has been evaluated.
C13_NothingToRollOut ==
    (/\ call.op = "get_variation_for_rollout"
     /\ RulesOf(ConfigOf(call.datafile), call.feature) = <<>>) =>
        /\ pc = "done"
        /\ ret.decision = Decision(None, None, ROLLOUT)
        /\ events = <<>>

\* C13 witness: the call has returned for a feature whose rollout id the config does
\* not have, made by a user who holds forced decisions.
C13_Witness ==
    /\ Returned("get_variation_for_rollout")
    /\ call.feature.rolloutId # None
    /\ call.feature.rolloutId \notin DOMAIN ConfigOf(call.datafile).rollout_id_map
    /\ call.user_context.forced_decisions # EmptyDict
    /\ ret.decision = Decision(None, None, ROLLOUT)

\* The variation of feature f that the user context forces for (f, rule key), read
\* from the context's forced decisions and the config's flag variations, or None.
ForcedVariation(cfg, f, rule_key, uc) ==
    IF <<f.key, rule_key>> \notin DOMAIN uc.forced_decisions \/ f.key \notin DOMAIN cfg.flag_variations_map
    THEN None
    ELSE LET found == {v \in cfg.flag_variations_map[f.key] :
                          VariationKeys[v] = uc.forced_decisions[<<f.key, rule_key>>]}
         IN  IF found = {} THEN None ELSE CHOOSE v \in found : TRUE

\* The Decision recorded for the feature at position i (position 0: the Decision a
\* direct get_variation_for_rollout call returned).
DecisionAt(i) ==
    IF i = 0 THEN ret.decision
    ELSE IF pc = "done" THEN ret[i].decision ELSE decisions[i].decision

\* History entry k is about rule `rule` of the rollout of its feature.
AtRule(k, op, rule) ==
    k >= 1 /\ events[k].op = op /\ events[k].exp = rule.id

\* C14: at every rollout rule visited, the forced decision for (feature key, rule
\* key) is checked before the audience and before bucketing, which are evaluated
\* only after a check that gave nothing; a check that gives a variation of the flag
\* ends the walk at once with Decision(rule, that variation, ROLLOUT).
C14_ForcedDecisionFirstAtRule ==
    (call.op \in {"get_variation_for_rollout", "get_variations_for_feature_list"}) =>
        \A k \in 1..Len(events) :
            LET ev == events[k]
                f == FeatureAt(ev.feature)
                cfg == ConfigOf(call.datafile)
            IN  \A rule \in IF InBatch /\ ev.feature = 0 THEN {} ELSE Range(RulesOf(cfg, f)) :
                    (ev.exp = rule.id) =>
                        /\ ev.op = "validated_forced_decision" =>
                               /\ ev.variation = ForcedVariation(cfg, f, rule.key, call.user_context)
                               /\ ev.variation # None =>
                                      /\ k < Len(events) => events[k + 1].feature # ev.feature
                                      /\ call.op = "get_variation_for_rollout" => pc = "done"
                                      /\ DecisionAt(ev.feature) = Decision(rule.id, ev.variation, ROLLOUT)
                        /\ ev.op = "does_user_meet_audience_conditions" =>
                               /\ AtRule(k - 1, "validated_forced_decision", rule)
                               /\ events[k - 1].feature = ev.feature
                               /\ events[k - 1].variation = None
                        /\ ev.op = "bucket" =>
                               /\ AtRule(k - 1, "does_user_meet_audience_conditions", rule)
                               /\ AtRule(k - 2, "validated_forced_decision", rule)
                               /\ events[k - 2].feature = ev.feature
                               /\ events[k - 2].variation = None

\* C14 witness: a walk has returned the variation forced for a rule whose audience
\* the user meets and at which bucketing gives the user something else.
C14_Witness ==
    /\ Returned("get_variation_for_rollout")
    /\ \E rule \in Range(RulesOf(ConfigOf(call.datafile), call.feature)) :
           /\ ret.decision.experiment = rule.id
           /\ ret.decision.variation # None
           /\ ret.decision.variation = ForcedVariation(ConfigOf(call.datafile), call.feature,
                                                       rule.key, call.user_context)
           /\ MeetsAudience(rule, call.user_context)
           /\ Bucketed(rule, call.user_context) # ret.decision.variation
           /\ Bucketed(rule, call.user_context) # None

\* ---- forced decisions on feature experiments

\* C15: in get_variations_for_feature_list the forced decision for (feature key,
\* experiment key) is checked first for each experiment; when it gives a variation
\* of the flag, that variation is the feature's FEATURE_TEST Decision and nothing
\* more is evaluated for the feature; get_variation and its layers are entered only
\* after a check that gave nothing.
C15_ForcedDecisionFirstAtExperiment ==
    InBatch =>
        \A k \in 1..Len(events) :
            LET ev == events[k]
                cfg == ConfigOf(call.datafile)
            IN  (ev.feature >= 1 /\ OfExperiment(ev, ev.feature)) =>
                    /\ ev.op = "validated_forced_decision" =>
                           /\ ev.variation = ForcedVariation(cfg, call.features[ev.feature],
                                                             cfg.experiment_id_map[ev.exp].key,
                                                             call.user_context)
                           /\ ev.variation # None =>
                                  /\ k < Len(events) => events[k + 1].feature # ev.feature
                                  /\ DecisionAt(ev.feature) = Decision(ev.exp, ev.variation, FEATURE_TEST)
                    /\ ev.op = "get_variation" =>
                           /\ k > 1
                           /\ events[k - 1].op = "validated_forced_decision"
                           /\ events[k - 1].exp = ev.exp
                           /\ events[k - 1].feature = ev.feature
                           /\ events[k - 1].variation = None
                    /\ ev.op \notin {"validated_forced_decision", "get_variation"} =>
                           /\ k > 1
                           /\ events[k - 1].op # "validated_forced_decision"
                           /\ events[k - 1].exp = ev.exp
                           /\ events[k - 1].feature = ev.feature

\* C15 witness: a batch has returned, for a feature whose first experiment is not
\* running and for a user whom the store and the whitelist map to another variation
\* of that experiment, the variation forced on the user context, without a call of
\* get_variation for that feature.
C15_Witness ==
    /\ Returned("get_variations_for_feature_list")
    /\ call.datafile.status1 # RUNNING
    /\ Entry(forced_variation_map, CalledUser, "e1") = "v2"
    /\ \E i \in 1..Len(call.features) :
           /\ call.features[i].key = "f1"
           /\ ForcedVariation(ConfigOf(call.datafile), call.features[i], "exp1", call.user_context) = "v1"
           /\ ret[i].decision = Decision("e1", "v1", FEATURE_TEST)
           /\ \A k \in 1..Len(events) :
                  events[k].feature = i => events[k].op = "validated_forced_decision"

\* ---- failures of profile persistence

\* A write of the profile tracker in the history that failed: an update for an
\* experiment whose update raises.
FailedUpdate(ev, tracker) == ev.op = "update_user_profile" /\ ev.exp \in tracker.raises

RuleIds(cfg) ==
    UNION {{r.id : r \in Range(cfg.rollout_id_map[ro])} : ro \in DOMAIN cfg.rollout_id_map}

\* Entry k of history evs records an update of the tracker with what the bucketer
\* has just given for an experiment that get_variation evaluated.
UpdateAfterBucketing(evs, k, cfg) ==
    /\ k > 1
    /\ evs[k].op = "update_user_profile"
    /\ evs[k - 1].op = "bucket"
    /\ evs[k - 1].exp = evs[k].exp
    /\ evs[k - 1].feature = evs[k].feature
    /\ evs[k - 1].variation = evs[k].variation
    /\ evs[k].variation # None
    /\ evs[k].exp \notin RuleIds(cfg)
    /\ \E j \in 1..(k - 1) : evs[j].op = "get_forced_variation" /\ evs[j].exp = evs[k].exp

\* C17: in every step of get_variation, of a batch or of a rollout walk, the tracker
\* is updated only with (experiment, variation) that the bucketer of get_variation
\* has just given, and only with a tracker present and the profile not ignored; a
\* step that makes no such update (a result from the store, the whitelist, the
\* stored profile, a forced decision or a rollout) leaves the tracker as it was.
C17_UpdateOnlyAfterBucketing ==
    [][((pc \notin {"idle", "done"}) \/ (pc = "idle" /\ call'.op = "get_variation")) =>
           LET before == IF pc = "idle" THEN call'.user_profile_tracker ELSE user_profile_tracker
               new == (Len(events) + 1)..Len(events')
               cfg == ConfigOf(call'.datafile)
           IN  /\ \A k \in new :
                      events'[k].op = "update_user_profile" =>
                          /\ UpdateAfterBucketing(events', k, cfg)
                          /\ before.present
                          /\ IGNORE_USER_PROFILE_SERVICE \notin call'.options
                          /\ events'[k].exp \notin before.raises =>
                                 user_profile_tracker' =
                                     [before EXCEPT !.user_profile =
                                                        DictSet(@, events'[k].exp, events'[k].variation),
                                                    !.profile_updated = TRUE]
               /\ (\A k \in new : events'[k].op # "update_user_profile") =>
                      user_profile_tracker' = before]_vars

\* C17 witness: a batch has returned in which one feature was decided by bucketing
\* in an experiment, which is the one update of the tracker, and another feature by
\* bucketing in a rollout rule, which is not in the profile.
C17_Witness ==
    /\ Returned("get_variations_for_feature_list")
    /\ Count("update_user_profile") = 1
    /\ user_profile_tracker.profile_updated
    /\ \E k \in 1..Len(events) :
           /\ UpdateAfterBucketing(events, k, ConfigOf(call.datafile))
           /\ user_profile_tracker.user_profile = [e \in {events[k].exp} |-> events[k].variation]
    /\ \E i \in 1..Len(ret) :
           ret[i].decision.source = ROLLOUT /\ ret[i].decision.variation # None

\* ---- batches that do not use the profile service

ProfileOps ==
    {"load_user_profile", "get_stored_variation", "update_user_profile", "save_user_profile",
     "UserProfileService.save"}

\* What get_variation gives for experiment e and the user of the call when no stored
\* profile is consulted, read from the data: nothing if e is not running, else the
\* store's variation, else the whitelisted one, else the bucketed one if the user
\* meets the audience.
WithoutProfile(e, uc) ==
    LET whitelisted == {v \in e.variations :
                           /\ uc.user_id \in DOMAIN e.forcedVariations
                           /\ VariationKeys[v] = e.forcedVariations[uc.user_id]}
    IN  IF e.status # RUNNING THEN None
        ELSE IF Entry(forced_variation_map, uc.user_id, e.id) \in e.variations
        THEN Entry(forced_variation_map, uc.user_id, e.id)
        ELSE IF whitelisted # {} THEN CHOOSE v \in whitelisted : TRUE
        ELSE IF MeetsAudience(e, uc) THEN Bucketed(e, uc)
        ELSE None

\* C18: a batch made with IGNORE_USER_PROFILE_SERVICE, or by a service without a
\* profile service, has no tracker and makes no profile load, no stored-decision
\* lookup, no tracker update and no save; what get_variation gives in it is what
\* the store, the whitelist, the audience and the bucketer give.
C18_ProfileIgnored ==
    (InBatch /\ (IGNORE_USER_PROFILE_SERVICE \in call.options \/ user_profile_service = None)) =>
        /\ user_profile_tracker = NoTracker
        /\ \A k \in 1..Len(events) :
               /\ events[k].op \notin ProfileOps
               /\ events[k].op = "get_variation" =>
                      events[k].variation =
                          WithoutProfile(ConfigOf(call.datafile).experiment_id_map[events[k].exp],
                                         call.user_context)

\* C18 witness: a batch made with IGNORE_USER_PROFILE_SERVICE by a service that has
\* a profile service has returned a variation the user was bucketed into.
C18_Witness ==
    /\ Returned("get_variations_for_feature_list")
    /\ IGNORE_USER_PROFILE_SERVICE \in call.options
    /\ user_profile_service # None
    /\ \E k \in 2..Len(events) :
           /\ events[k].op = "bucket"
           /\ events[k].variation # None
           /\ ret[events[k].feature].decision =
                  Decision(events[k].exp, events[k].variation, FEATURE_TEST)

\* ---- stale stored decisions

\* The profile of the call holds for the experiment a variation id that the
\* experiment no longer has.
StaleStoredDecision ==
    ProfileEntry # None /\ ProfileEntry \notin CalledExperiment.variations

\* C19: when the stored profile holds for the experiment a variation id that no
\* longer resolves, get_variation returns (it does not fail), does not give that
\* id, and gives the variation and the reasons it gives for the same arguments with
\* a profile without that entry; where store and whitelist give nothing, the
\* audience is evaluated and the result is the bucketing result.
C19_StaleStoredDecision ==
    (Returned("get_variation") /\ StaleStoredDecision) =>
        LET clean == [call.user_profile_tracker EXCEPT
                          !.user_profile = DictDel(@, call.experiment)]
            same == get_variation(forced_variation_map, ConfigOf(call.datafile), CalledExperiment,
                                  call.user_context, clean, <<>>, call.options)
        IN  /\ ret.variation # ProfileEntry
            /\ ret.variation = same.variation
            /\ ret.reasons = same.reasons
            /\ (CalledExperiment.status = RUNNING /\ ~StoreYields /\ WhitelistMatches = {}) =>
                   /\ \E k \in 1..Len(events) : events[k].op = "does_user_meet_audience_conditions"
                   /\ ret.variation = BucketValue

\* C19 witness: with a stale stored decision, get_variation has gone on to bucketing
\* and returned the variation the bucketer gave.
C19_Witness ==
    /\ Returned("get_variation")
    /\ StaleStoredDecision
    /\ ret.variation # None
    /\ \E k \in 1..Len(events) : events[k].op = "bucket" /\ events[k].variation = ret.variation

\* ---- validation of forced decisions

\* C20: validated_forced_decision gives the flag's variation with the forced key and
\* one reason when the user context holds a forced decision for (flag key, rule
\* key) whose variation key is among the flag's variations; no variation and one
\* reason of another kind when it holds one whose key is not; no variation and no
\* reason when it holds none; the forced decisions of the user context are after
\* the call what they were before it.
C20_ValidatedForcedDecision ==
    Returned("validated_forced_decision") =>
        LET context == <<call.flag_key, call.rule_key>>
            held == call.user_context.forced_decisions
            found == IF context \in DOMAIN held
                     THEN {v \in ConfigOf(call.datafile).flag_variations_map[call.flag_key] :
                              VariationKeys[v] = held[context]}
                     ELSE {}
        IN  /\ (context \in DOMAIN held /\ found # {}) =>
                   /\ ret.variation \in found
                   /\ ret.reasons = <<Reason("forced_decision", call.rule_key)>>
            /\ (context \in DOMAIN held /\ found = {}) =>
                   /\ ret.variation = None
                   /\ ret.reasons = <<Reason("forced_decision_invalid", call.rule_key)>>
            /\ context \notin DOMAIN held =>
                   /\ ret.variation = None
                   /\ ret.reasons = <<>>
            /\ ret.user_context = call.user_context

\* C20 witness: the call has returned no variation and the reason for an invalid
\* forced decision, and the user context still holds that forced decision.
C20_Witness ==
    /\ Returned("validated_forced_decision")
    /\ ret.variation = None
    /\ Len(ret.reasons) = 1
    /\ <<call.flag_key, call.rule_key>> \in DOMAIN ret.user_context.forced_decisions
    /\ ret.user_context.forced_decisions[<<call.flag_key, call.rule_key>>] = "zz"

\* ---- the variation of a Decision

\* The experiments and rollout rules of config cfg with id `id`.
Named(cfg, id) ==
    {cfg.experiment_id_map[i] : i \in DOMAIN cfg.experiment_id_map \cap {id}}
    \cup {r \in UNION {Range(cfg.rollout_id_map[ro]) : ro \in DOMAIN cfg.rollout_id_map} :
             r.id = id}

\* The Decisions a returned call has handed back, each with its feature.
ReturnedDecisions ==
    IF Returned("get_variation_for_rollout")
    THEN {[decision |-> ret.decision, feature |-> call.feature]}
    ELSE IF Returned("get_variations_for_feature_list")
    THEN {[decision |-> ret[i].decision, feature |-> call.features[i]] : i \in 1..Len(ret)}
    ELSE {}

\* C21 (as claimed): in every Decision returned by get_variation_for_rollout or
\* get_variations_for_feature_list a variation that is not None is one of the
\* variations of the Decision's experiment or rollout rule.
C21_VariationOfExperiment ==
    \A d \in ReturnedDecisions :
        d.decision.variation # None =>
            \A x \in Named(ConfigOf(call.datafile), d.decision.experiment) :
                d.decision.variation \in x.variations

\* C21 (amended): a variation that is not None in a returned Decision is, when the
\* user context holds a valid forced decision for (feature key, key of the
\* Decision's experiment or rule), the flag's variation with the forced key, and
\* otherwise one of the variations of the Decision's experiment or rule.
C21_VariationOfExperimentOrFlag ==
    \A d \in ReturnedDecisions :
        d.decision.variation # None =>
            /\ Named(ConfigOf(call.datafile), d.decision.experiment) # {}
            /\ \A x \in Named(ConfigOf(call.datafile), d.decision.experiment) :
                   LET forced == ForcedVariation(ConfigOf(call.datafile), d.feature, x.key,
                                                 call.user_context)
                   IN  IF forced # None
                       THEN /\ d.decision.variation = forced
                            /\ forced \in ConfigOf(call.datafile).flag_variations_map[d.feature.key]
                       ELSE d.decision.variation \in x.variations

\* C21 witness: a batch has returned for a feature a Decision that names an
\* experiment and a forced variation of the flag that the experiment does not have.
C21_Witness ==
    /\ Returned("get_variations_for_feature_list")
    /\ \E d \in ReturnedDecisions :
           /\ d.decision.source = FEATURE_TEST
           /\ d.decision.variation # None
           /\ \E x \in Named(ConfigOf(call.datafile), d.decision.experiment) :
                  /\ d.decision.variation \notin x.variations
                  /\ d.decision.variation =
                         ForcedVariation(ConfigOf(call.datafile), d.feature, x.key, call.user_context)

\* ---- the event dispatcher

\* The outcome of the last attempt made.
LastOutcome == events[Len(events)].variation

\* C22: dispatch_event never ends in an exception for a failed request: when the
\* last attempt ended in a status of 400 or more or in an error of the connection
\* (a timeout included), whether or not the retries are used up, the error is logged
\* and the call returns; another attempt is made only after status 500, 502, 503 or
\* 504 or an error of the connection, never after a 4xx status, and at most RETRIES
\* times.
C22_DispatchNeverRaises ==
    (call.op = "dispatch_event") =>
        /\ pc # "raised"
        /\ Len(events) <= RETRIES + 1
        /\ \A k \in 1..(Len(events) - 1) :
               /\ \/ events[k].variation.status \in {500, 502, 503, 504}
                  \/ events[k].variation.error \in ConnectionErrors
               /\ events[k].variation.status \notin 400..499
        /\ (pc = "done" /\ Len(events) > 0) =>
               IF LastOutcome.error \in ConnectionErrors \/ LastOutcome.status >= 400
               THEN ret.logged /\ ret.exception # None
               ELSE ~ret.logged /\ ret.exception = None

\* C22 witness: the retries are used up on status 503 and dispatch_event has logged
\* the error and returned.
C22_Witness ==
    /\ Returned("dispatch_event")
    /\ Len(events) = RETRIES + 1
    /\ \A k \in 1..Len(events) : events[k].variation.status = 503
    /\ ret.logged

\* ---- the reasons of a batch

\* No message is twice in the list of reasons q.
NoDuplicates(q) == \A i, j \in 1..Len(q) : i # j => q[i] # q[j]

\* C23: in get_variations_for_feature_list the reasons recorded for a feature are
\* a trace of the messages generated while the feature was decided, each message
\* once: the list has no message twice, also after get_variation was called with
\* the reasons accumulated so far and its result was appended to them.
C23_ReasonsAppendOnly ==
    InBatch => \A k \in 1..Len(decisions) : NoDuplicates(decisions[k].reasons)

\* ---- the order of the rollout walk

\* The position of the rule with that id in rules.
RuleIndex(rules, id) == CHOOSE j \in 1..Len(rules) : rules[j].id = id

\* The positions of the rules visited so far by the walk in progress, in the order
\* of the visits: every pass through the loop starts with the forced-decision check
\* of its rule.
Visited(rules) ==
    LET checks == SelectSeq(events, LAMBDA ev : ev.op = "validated_forced_decision")
    IN  [j \in 1..Len(checks) |-> RuleIndex(rules, checks[j].exp)]

\* The positions the walk over the rules of feature f has to visit for the user, from
\* the raw config and user context: the rules up to the first one with a valid
\* forced decision or an audience the user meets, and after it the last rule when
\* that rule had no forced decision, bucketing at it gave nothing and it is not last.
ExpectedVisits(cfg, f, uc) ==
    LET rules == RulesOf(cfg, f)
        stops == {j \in 1..Len(rules) :
                     \/ ForcedVariation(cfg, f, rules[j].key, uc) # None
                     \/ MeetsAudience(rules[j], uc)}
        k == CHOOSE j \in stops : \A i \in stops : j <= i
    IN  IF stops = {} THEN [j \in 1..Len(rules) |-> j]
        ELSE [j \in 1..k |-> j]
             \o (IF /\ ForcedVariation(cfg, f, rules[k].key, uc) = None
                    /\ Bucketed(rules[k], uc) = None
                    /\ k # Len(rules)
                 THEN <<Len(rules)>> ELSE <<>>)

\* C24: when the config resolves every rule id, get_variation_for_rollout visits the
\* rules in strictly increasing order, each at most once: the rules from the first
\* up to the first one with a valid forced decision or an audience the user meets (a
\* failed audience check moves on by one rule), then the last rule only if at that
\* rule the user met the audience, bucketing gave nothing and it is not the last;
\* the bucketer is called at most twice.
C24_RolloutWalkOrder ==
    LET cfg == ConfigOf(call.datafile)
    IN  (/\ call.op = "get_variation_for_rollout"
         /\ \A rule \in Range(RulesOf(cfg, call.feature)) : rule.id \in DOMAIN cfg.experiment_id_map) =>
            LET visited == Visited(RulesOf(cfg, call.feature))
                expected == ExpectedVisits(cfg, call.feature, call.user_context)
            IN  /\ \A j \in 1..(Len(visited) - 1) : visited[j] < visited[j + 1]
                /\ Len(visited) <= Len(expected)
                /\ \A j \in 1..Len(visited) : visited[j] = expected[j]
                /\ pc = "done" => visited = expected
                /\ Cardinality({k \in 1..Len(events) : events[k].op = "bucket"}) <= 2

\* C24 witness: a walk over three rules has returned after the first rule, where the
\* user met the audience and bucketing gave nothing, and the last rule: the second
\* rule was passed over and the bucketer was called twice.
C24_Witness ==
    /\ Returned("get_variation_for_rollout")
    /\ Len(RulesOf(ConfigOf(call.datafile), call.feature)) = 3
    /\ Visited(RulesOf(ConfigOf(call.datafile), call.feature)) = <<1, 3>>
    /\ Cardinality({k \in 1..Len(events) : events[k].op = "bucket"}) = 2

\* ---- the forced-variation store as a map

\* C25: after set_forced_variation(experiment, user, v) has returned True for a
\* variation key v, get_forced_variation for that experiment and user under the same
\* config gives the variation with key v, whatever the map held for them before (the
\* last write wins); and a set_forced_variation for one (user, experiment) leaves
\* what get_forced_variation gives for every other (user, experiment) as it was.
C25_LastWriteWins ==
    [][(/\ pc = "idle"
        /\ call'.op = "set_forced_variation"
        /\ ret'.result = TRUE) =>
           /\ call'.variation_key.type # "NoneType" =>
                  LET got == get_forced_variation(forced_variation_map', ConfigOf(call'.datafile),
                                                  call'.experiment_key, call'.user_id).variation
                  IN  /\ got # None
                      /\ VariationKeys[got] = call'.variation_key.value
           /\ \A d \in StoreDatafiles, u \in Users, e \in ExperimentKeys :
                  <<u, e>> # <<call'.user_id, call'.experiment_key>> =>
                      get_forced_variation(forced_variation_map', ConfigOf(d), e, u)
                          = get_forced_variation(forced_variation_map, ConfigOf(d), e, u)]_vars

\* C25 witness: set_forced_variation has returned True for a user, an experiment and
\* a variation key; the map holds that variation for them, next to the user's entry
\* for another experiment and another user's entry for the same experiment.
C25_Witness ==
    /\ Returned("set_forced_variation")
    /\ ret.result = TRUE
    /\ call.variation_key.type = "str"
    /\ \E x \in NamedExperiments(call) :
           /\ Entry(forced_variation_map, call.user_id, x.id) # None
           /\ VariationKeys[Entry(forced_variation_map, call.user_id, x.id)] = call.variation_key.value
           /\ \E e \in AllExperimentIds \ {x.id} : Entry(forced_variation_map, call.user_id, e) # None
           /\ \E u \in Users \ {call.user_id} : Entry(forced_variation_map, u, x.id) # None

\* ---- the shape of a Decision

\* The Decisions recorded so far by the batch in progress and those a returned call
\* has handed back.
MadeDecisions ==
    {d.decision : d \in ReturnedDecisions}
    \cup (IF InBatch THEN {decisions[i].decision : i \in 1..Len(decisions)} ELSE {})

\* C26: in every Decision made the experiment is None exactly when the variation is
\* None; get_variation_for_rollout returns a Decision with source ROLLOUT; a
\* Decision with source FEATURE_TEST names an experiment and a variation.
C26_DecisionShape ==
    /\ \A d \in MadeDecisions :
           /\ (d.experiment = None) <=> (d.variation = None)
           /\ d.source \in {ROLLOUT, FEATURE_TEST}
           /\ d.source = FEATURE_TEST => (d.experiment # None /\ d.variation # None)
    /\ Returned("get_variation_for_rollout") =>
           /\ ret.decision.source = ROLLOUT
           /\ (ret.decision.experiment = None) <=> (ret.decision.variation = None)

\* C26 witness: a batch has returned a FEATURE_TEST Decision that names an experiment
\* and a variation, and a ROLLOUT Decision that names neither.
C26_Witness ==
    /\ Returned("get_variations_for_feature_list")
    /\ \E d \in MadeDecisions :
           d.source = FEATURE_TEST /\ d.variation # None /\ d.experiment # None
    /\ \E d \in MadeDecisions : d = Decision(None, None, ROLLOUT)

\* ---- the frame of the forced-variation store

\* The operations that read the service's state.
ReadingOps ==
    {"get_forced_variation", "get_variation", "get_variation_for_rollout",
     "get_variations_for_feature_list", "validated_forced_decision"}

\* C27: forced_variation_map is changed by set_forced_variation only: every step that
\* changes it is a set_forced_variation call, and no step of get_forced_variation,
\* get_variation, get_variation_for_rollout or get_variations_for_feature_list (which
\* get_variation_for_feature calls with the one feature) adds, alters or removes an
\* entry, from the call to its return.
C27_OnlySetChangesStore ==
    [][/\ forced_variation_map' # forced_variation_map =>
              (pc = "idle" /\ call'.op = "set_forced_variation")
       /\ (call.op \in ReadingOps \/ call'.op \in ReadingOps) =>
              forced_variation_map' = forced_variation_map]_vars

\* C27 witness: a batch has returned a Decision read from the forced-variation store,
\* and the store still holds the entry.
C27_Witness ==
    /\ Returned("get_variations_for_feature_list")
    /\ \E k \in 1..Len(events) :
           /\ events[k].op = "get_forced_variation"
           /\ events[k].variation # None
           /\ Entry(forced_variation_map, call.user_context.user_id, events[k].exp) = events[k].variation
           /\ \E i \in 1..Len(ret) :
                  ret[i].decision = Decision(events[k].exp, events[k].variation, FEATURE_TEST)

====
